---- MODULE Spec2Model ----
(***************************************************************************)
(* StudioSpeech: the synthesis / fallback / cache pipeline.                *)
(*   CacheAgent   (cache.go:  GenerateKey, Get, Put, Remove, Prune, ...)   *)
(*   SynthAgent   (synth.go:  Synthesize with the Piper -> macOS fallback) *)
(*   executeSynthesisPipeline (cmd/ttscli/pipeline.go)                     *)
(* Strings are sequences of one-character strings, so that concatenation   *)
(* and formatting are computed the way the code computes them.             *)
(***************************************************************************)
EXTENDS Integers, Sequences, FiniteSets, TLC

\* ------------------------------------------------------------------------
\* Bounds of the model
\* ------------------------------------------------------------------------
\* the clock stops advancing here (maxAge is 2 ticks, so ages 0..MaxClock
\* cover "younger than", "exactly" and "older than" the TTL)
MaxClock == 3
\* number of GenerateKey calls kept in the call log
MaxKeyCalls == 2
\* number of Synthesize calls kept in the call log
MaxSynthCalls == 2
\* number of Process calls kept in the call log
MaxPostCalls == 2
\* number of GetCommandLine calls kept in the call log
MaxCmdCalls == 2
\* concurrent pipeline runs on one cache directory
NumRuns == 2
\* bytes of the longest text written to Piper
MaxText == 5
\* bytes the stdin pipe buffers before a write blocks
PipeCap == 2

\* ------------------------------------------------------------------------
\* State
\* ------------------------------------------------------------------------
VARIABLES
    now,        \* wall clock, in ticks of 12 hours
    files,      \* the file system: path -> content, for the files that exist
    indexFile,  \* content of <cacheDir>/index.json, Nil while it does not exist
    index,      \* CacheAgent.index (Nil before Initialize)
    last,       \* the last operation, its arguments and what it returned
    rt,         \* the last successful Put, until the next change to the cache
    evicted,    \* keys a Get dropped for a missing file, until their next Put
    keyLog,     \* GenerateKey calls made so far with the keys they returned
    synthLog,   \* Synthesize calls made so far with their engine attempts
    run,        \* the current run of executeSynthesisPipeline
    cmdLog,     \* GetCommandLine calls made so far with the command lines built
    postLog,    \* Process calls made so far with what they returned
    procs,      \* the concurrent runs sharing the cache directory, each with
                \* its own CacheAgent
    voiceAgent, \* a VoiceCatalogAgent: its catalog and its last call
    piperProc   \* one call of executePiper: its position, the child process,
                \* the stdin pipe and the writer goroutine

cacheVars == <<now, files, indexFile, index, last, rt, evicted>>
vars == <<now, files, indexFile, index, last, rt, evicted, keyLog, synthLog, run, cmdLog,
         postLog, procs,
         voiceAgent, piperProc>>

\* ------------------------------------------------------------------------
\* Values standing for Go's nil and for a nil error
\* ------------------------------------------------------------------------
Nil == <<>>
NoErr == "ok"

\* ------------------------------------------------------------------------
\* float64 values
\* ------------------------------------------------------------------------
\* A float64 is kept in fixed point (speed, noise, noiseW in ten-thousandths,
\* loudness in hundredths).  NaN stands for the not-a-number value, which
\* strconv.ParseFloat reads from the text "NaN" of a command-line flag; it is
\* a number outside every range of the model, told apart by equality only.
NaN == 0 - 99999999

\* the float64 operators < and >: every comparison with NaN is false
FLess(a, b) == a # NaN /\ b # NaN /\ a < b
FGreater(a, b) == a # NaN /\ b # NaN /\ a > b
\* the float64 operator !=: NaN differs from every value, itself included
FNotEqual(a, b) == a = NaN \/ b = NaN \/ a # b

\* ------------------------------------------------------------------------
\* Text formatting (fmt.Sprintf verbs used by GenerateKey)
\* ------------------------------------------------------------------------
Digit == <<"0", "1", "2", "3", "4", "5", "6", "7", "8", "9">>

RECURSIVE Dec(_)
\* %d of a natural number
Dec(n) == IF n < 10 THEN <<Digit[n + 1]>> ELSE Dec(n \div 10) \o <<Digit[(n % 10) + 1]>>

\* %d of an integer
FmtD(n) == IF n < 0 THEN <<"-">> \o Dec(0 - n) ELSE Dec(n)

\* |x| rounded from ten-thousandths to thousandths (round to nearest; the
\* inputs of the model never lie exactly half-way)
RoundDiv10(a) == (a + 5) \div 10

\* %.3f of a value given in ten-thousandths (1.03 is 10300)
Fmt3(v) ==
    IF v = NaN THEN <<"N", "a", "N">> ELSE
    LET a == IF v < 0 THEN 0 - v ELSE v
        t == RoundDiv10(a)
        f == t % 1000
    IN  (IF v < 0 /\ t # 0 THEN <<"-">> ELSE <<>>)
        \o Dec(t \div 1000) \o <<".">>
        \o <<Digit[(f \div 100) + 1], Digit[((f \div 10) % 10) + 1], Digit[(f % 10) + 1]>>

\* %.1f of a value given in hundredths (-16.0 is -1600)
Fmt1(v) ==
    IF v = NaN THEN <<"N", "a", "N">> ELSE
    LET a == IF v < 0 THEN 0 - v ELSE v
        t == RoundDiv10(a)
    IN  (IF v < 0 /\ t # 0 THEN <<"-">> ELSE <<>>)
        \o Dec(t \div 10) \o <<".">> \o <<Digit[(t % 10) + 1]>>

RECURSIVE Flatten(_)
\* the bytes written by hasher.Write for each paragraph in turn
Flatten(ps) == IF ps = <<>> THEN <<>> ELSE Head(ps) \o Flatten(Tail(ps))

\* ------------------------------------------------------------------------
\* Requests (inputs of GenerateKey)
\* ------------------------------------------------------------------------
ParagraphSets == { << <<"a", "b">>, <<"c">> >>,
                   << <<"a">>, <<"b", "c">> >>,
                   << <<"x">> >> }
Languages == {"en-US", "el-GR"}
\* Voice: the fields the pipeline reads (ID, Path, Gender, SampleRate)
ModelVoice1 == [ID |-> <<"v", "1">>, Path |-> <<"v", "/", "m", ".", "o">>,
                Gender |-> "female", SampleRate |-> 22050]
ModelVoice2 == [ID |-> <<"v", "2">>, Path |-> <<"v", "/", "n", ".", "o">>,
                Gender |-> "male", SampleRate |-> 22050]
BuiltInVoice == [ID |-> <<"s", "a", "m">>, Path |-> <<"S", "a", "m">>,
                 Gender |-> "female", SampleRate |-> 22050]
Voices == {ModelVoice1, ModelVoice2, BuiltInVoice}
\* a voice with the ID of ModelVoice1 and other fields that differ
ModelVoice1b == [ID |-> <<"v", "1">>, Path |-> <<"w", "/", "m", ".", "o">>,
                 Gender |-> "male", SampleRate |-> 16000]
AllVoices == Voices \cup {ModelVoice1b}
\* speeds in ten-thousandths: 1.0000, 1.0002 (same 3-decimal text), 1.0300
Speeds == {10000, 10002, 10300}
Noises == {6670, 7000}
NoiseWs == {8000, 5000}
Speakers == {0, 1}
Formats == { <<"m", "p", "3">>, <<"w", "a", "v">> }
SampleRates == {48000, 22050}
Bitrates == {192, 128}
\* loudness in hundredths of a LUFS
Loudnesses == {-1600, -1400}
WordCounts == {2, 3}
Sources == {"a.txt", "b.txt"}

TextContents == [Paragraphs : ParagraphSets, Language : Languages,
                 WordCount : WordCounts, Source : Sources]
SynthParamSets == [Speed : Speeds, Noise : Noises, NoiseW : NoiseWs, Speaker : Speakers]
PostParamSets == [Format : Formats, SampleRate : SampleRates, Bitrate : Bitrates,
                  LoudnessLUFS : Loudnesses]

\* ------------------------------------------------------------------------
\* CacheAgent.GenerateKey
\* ------------------------------------------------------------------------
\* sha256 + %x: collision-free, so the digest is represented by its preimage
Sha256Hex(bytes) == <<"sha256">> \o bytes

SynthParamsText(sp) ==
    IF sp = Nil THEN <<>>
    ELSE Fmt3(sp.Speed) \o <<"-">> \o Fmt3(sp.Noise) \o <<"-">> \o Fmt3(sp.NoiseW)
         \o <<"-">> \o FmtD(sp.Speaker)

PostParamsText(pp) ==
    IF pp = Nil THEN <<>>
    ELSE pp.Format \o <<"-">> \o FmtD(pp.SampleRate) \o <<"-">> \o FmtD(pp.Bitrate)
         \o <<"-">> \o Fmt1(pp.LoudnessLUFS)

\* GenerateKey with the time of the call hashed in
GenerateKeyTimestamped(content, voice, synthParams, postParams) ==
    Sha256Hex(Flatten(content.Paragraphs) \o voice.ID
              \o SynthParamsText(synthParams) \o PostParamsText(postParams)
              \o Dec(now))

\* GenerateKey with the language tag hashed in
GenerateKeyWithLanguage(content, voice, synthParams, postParams) ==
    Sha256Hex(Flatten(content.Paragraphs) \o <<content.Language>> \o voice.ID
              \o SynthParamsText(synthParams) \o PostParamsText(postParams))

GenerateKey(content, voice, synthParams, postParams) ==
    Sha256Hex(Flatten(content.Paragraphs) \o voice.ID
              \o SynthParamsText(synthParams) \o PostParamsText(postParams))

\* ------------------------------------------------------------------------
\* The file system and the cache directory
\* ------------------------------------------------------------------------
\* a path is <<directory, base name, extension>>
cacheDir == "cache"
tempDir == "tmp"
Ext(path) == path[3]

Key1 == <<"k", "1">>
Key2 == <<"k", "2">>
Keys == {Key1, Key2}
Exts == {".mp3", ".wav"}
\* file contents are byte sequences; a file's size is the length of its content
Contents == { <<1>>, <<2, 2>> }
Metadatas == {"m1"}
\* the paths a caller hands to Put: one in its own scratch directory and one
\* that lies in the cache directory under the name Put gives to Key1
TmpOut == <<tempDir, <<"o", "u", "t">>, ".mp3">>
SrcPaths == { TmpOut, <<cacheDir, Key1, ".mp3">> }

WriteF(fs, p, c) == [q \in (DOMAIN fs) \cup {p} |-> IF q = p THEN c ELSE fs[q]]
DeleteF(fs, p) == [q \in (DOMAIN fs) \ {p} |-> fs[q]]
MapPut(m, k, v) == [q \in (DOMAIN m) \cup {k} |-> IF q = k THEN v ELSE m[q]]
MapDel(m, k) == [q \in (DOMAIN m) \ {k} |-> m[q]]

\* NewCacheAgent: maxAge is 24 hours (2 ticks of 12 hours); maxSize is 1 GB,
\* scaled to 3 bytes so that two cached artifacts can exceed it
maxAge == 2
maxSize == 3

EmptyIndex == [Entries |-> <<>>, Version |-> "1.0"]

\* an index file whose content json.Decode rejects (garbage, or the empty
\* file that os.Create leaves before Encode has written)
Garbage == [garbage |-> TRUE]
Decodable(content) == "Entries" \in DOMAIN content

\* the part of the state a CacheAgent method reads and writes.  io tells
\* whether the cache directory can be written: "ok"; "readonly" when
\* os.Create and os.Remove in it fail; "indexlocked" when only index.json
\* cannot be created; "diskfull" when os.Create succeeds and the writes fail
World == [index |-> index, indexFile |-> indexFile, files |-> files, io |-> "ok"]
Writable(w) == w.io = "ok"

\* what a method returns: the world it leaves, the entry and the error
Ret(w, entry, err) == [w |-> w, entry |-> entry, err |-> err]

\* CacheAgent.saveIndex: os.Create + Encode of the whole index; nothing is
\* written when os.Create fails
saveIndex(w) ==
    IF Writable(w) THEN [w EXCEPT !.indexFile = w.index]
    ELSE IF w.io = "diskfull" THEN [w EXCEPT !.indexFile = Garbage]
    ELSE w
\* the error saveIndex returns
saveIndexErr(w) ==
    IF Writable(w) THEN NoErr
    ELSE IF w.io = "diskfull" THEN "no space left on device"
    ELSE "permission denied"

\* loadIndex failing on an index file it cannot decode
loadIndexNoReset(w) ==
    IF w.indexFile = Nil
    THEN Ret(saveIndex([w EXCEPT !.index = EmptyIndex]), Nil, saveIndexErr(w))
    ELSE IF ~Decodable(w.indexFile)
    THEN Ret(w, Nil, "invalid character")
    ELSE Ret([w EXCEPT !.index = w.indexFile], Nil, NoErr)

\* CacheAgent.loadIndex: a missing index file and one that does not decode
\* both give a fresh empty index, which is saved
loadIndex(w) ==
    IF w.indexFile = Nil
    THEN Ret(saveIndex([w EXCEPT !.index = EmptyIndex]), Nil, saveIndexErr(w))
    ELSE IF ~Decodable(w.indexFile)
    THEN Ret(saveIndex([w EXCEPT !.index = EmptyIndex]), Nil, saveIndexErr(w))
    ELSE Ret([w EXCEPT !.index = w.indexFile], Nil, NoErr)

\* CacheAgent.Initialize
Initialize(w) ==
    LET r == loadIndex(w)
    IN  IF r.err # NoErr THEN Ret(r.w, Nil, "failed to load cache index") ELSE r

\* CacheAgent.copyFile: src is opened, dst is created (truncated), then the
\* bytes src holds at that moment are copied
copyFile(fs, src, dst) ==
    LET created == WriteF(fs, dst, <<>>)
    IN  WriteF(created, dst, created[src])

\* Remove deleting the file and the in-memory entry without saving the index
RemoveNotSaved(w, key) ==
    IF w.index = Nil THEN Ret(w, Nil, "cache not initialized")
    ELSE IF key \notin DOMAIN w.index.Entries THEN Ret(w, Nil, NoErr)
    ELSE LET entry == w.index.Entries[key]
         IN  Ret([w EXCEPT !.files = DeleteF(w.files, entry.FilePath),
                           !.index.Entries = MapDel(w.index.Entries, key)], Nil, NoErr)

\* CacheAgent.Remove
Remove(w, key) ==
    IF w.index = Nil THEN Ret(w, Nil, "cache not initialized")
    ELSE IF key \notin DOMAIN w.index.Entries THEN Ret(w, Nil, NoErr)
    ELSE LET entry == w.index.Entries[key]
             w1 == [w EXCEPT !.files = DeleteF(w.files, entry.FilePath),
                             !.index.Entries = MapDel(w.index.Entries, key)]
         IN  IF w.io = "readonly" /\ entry.FilePath \in DOMAIN w.files
             THEN Ret(w, Nil, "failed to remove cache file")
             ELSE Ret(saveIndex(w1), Nil, saveIndexErr(w1))

\* the age test of Get and Prune: time.Since(entry.CreatedAt) > c.maxAge
TooOld(entry, t) == t - entry.CreatedAt > maxAge

\* Get reporting an unknown key as an error
GetUnknownKeyFails(w, key, t) ==
    IF w.index = Nil THEN Ret(w, Nil, "cache not initialized")
    ELSE IF key \notin DOMAIN w.index.Entries THEN Ret(w, Nil, "key not found")
    ELSE LET entry == w.index.Entries[key]
         IN  IF entry.FilePath \notin DOMAIN w.files
             THEN Ret(saveIndex([w EXCEPT !.index.Entries = MapDel(w.index.Entries, key)]),
                      Nil, NoErr)
             ELSE IF TooOld(entry, t)
             THEN Ret(Remove(w, key).w, Nil, NoErr)
             ELSE Ret(w, entry, NoErr)

\* Get dropping a stale entry from memory without saving the index
GetStaleNotSaved(w, key, t) ==
    IF w.index = Nil THEN Ret(w, Nil, "cache not initialized")
    ELSE IF key \notin DOMAIN w.index.Entries THEN Ret(w, Nil, NoErr)
    ELSE LET entry == w.index.Entries[key]
         IN  IF entry.FilePath \notin DOMAIN w.files
             THEN Ret([w EXCEPT !.index.Entries = MapDel(w.index.Entries, key)], Nil, NoErr)
             ELSE IF TooOld(entry, t)
             THEN Ret(Remove(w, key).w, Nil, NoErr)
             ELSE Ret(w, entry, NoErr)

\* CacheAgent.Get
Get(w, key, t) ==
    IF w.index = Nil THEN Ret(w, Nil, "cache not initialized")
    ELSE IF key \notin DOMAIN w.index.Entries THEN Ret(w, Nil, NoErr)
    ELSE LET entry == w.index.Entries[key]
         IN  IF entry.FilePath \notin DOMAIN w.files
             THEN Ret(saveIndex([w EXCEPT !.index.Entries = MapDel(w.index.Entries, key)]),
                      Nil, NoErr)
             ELSE IF TooOld(entry, t)
             THEN Ret(Remove(w, key).w, Nil, NoErr)
             ELSE Ret(w, entry, NoErr)

\* CacheAgent.Put
Put(w, key, filePath, metadata, t) ==
    IF w.index = Nil THEN Ret(w, Nil, "cache not initialized")
    ELSE IF filePath \notin DOMAIN w.files THEN Ret(w, Nil, "failed to get file info")
    ELSE LET fileSize == Len(w.files[filePath])
             cacheFilePath == <<cacheDir, key, Ext(filePath)>>
             entry == [Key |-> key, FilePath |-> cacheFilePath, CreatedAt |-> t,
                       FileSize |-> fileSize, Metadata |-> metadata]
             w1 == [w EXCEPT !.files = copyFile(w.files, filePath, cacheFilePath),
                             !.index.Entries = MapPut(w.index.Entries, key, entry)]
         IN  IF w.io = "readonly" THEN Ret(w, Nil, "failed to copy file to cache")
             ELSE IF w.io = "diskfull"
             THEN Ret([w EXCEPT !.files = WriteF(w.files, cacheFilePath, <<>>)], Nil,
                      "failed to copy file to cache")
             ELSE Ret(saveIndex(w1), Nil,
                      IF saveIndexErr(w1) = NoErr THEN NoErr
                      ELSE "failed to save cache index")

RECURSIVE EvictUntilUnderOffByOne(_, _)
\* the capacity loop stopping one byte above the bound
EvictUntilUnderOffByOne(w, totalSize) ==
    IF totalSize <= maxSize + 1 \/ DOMAIN w.index.Entries = {} THEN {w}
    ELSE UNION { EvictUntilUnderOffByOne(Remove(w, k).w,
                                         totalSize - w.index.Entries[k].FileSize)
                 : k \in DOMAIN w.index.Entries }

RECURSIVE EvictUntilUnder(_, _)
\* the capacity loop of Prune: entries are removed in map-iteration order
\* (any order) until the running total is within maxSize
EvictUntilUnder(w, totalSize) ==
    IF totalSize <= maxSize \/ DOMAIN w.index.Entries = {} THEN {w}
    ELSE UNION { EvictUntilUnder(Remove(w, k).w, totalSize - w.index.Entries[k].FileSize)
                 : k \in DOMAIN w.index.Entries }

RECURSIVE SumSizes(_)
SumSizes(entries) ==
    IF DOMAIN entries = {} THEN 0
    ELSE LET k == CHOOSE x \in DOMAIN entries : TRUE
         IN  entries[k].FileSize + SumSizes(MapDel(entries, k))

\* CacheAgent.Prune: the set of outcomes the map-iteration order allows.  With
\* an expired entry in toRemove, the statement after the first c.Remove(key)
\* reads c.index.Entries[key].FileSize of the entry just deleted: a nil
\* dereference, the goroutine panics.
Prune(w, t) ==
    IF w.index = Nil THEN {Ret(w, Nil, "cache not initialized")}
    ELSE LET toRemove == {k \in DOMAIN w.index.Entries : TooOld(w.index.Entries[k], t)}
             totalSize == SumSizes(w.index.Entries)
         IN  IF toRemove # {}
             THEN {Ret(Remove(w, k).w, Nil, "panic") : k \in toRemove}
             ELSE {Ret(w2, Nil, NoErr) : w2 \in EvictUntilUnder(w, totalSize)}

\* ------------------------------------------------------------------------
\* Operations on one CacheAgent, and its environment
\* ------------------------------------------------------------------------
\* what held for key just before an operation
PreOf(w, key, t) ==
    LET present == w.index # Nil /\ key \in DOMAIN w.index.Entries
        fileThere == present /\ w.index.Entries[key].FilePath \in DOMAIN w.files
    IN  [init |-> w.index # Nil, present |-> present, fileThere |-> fileThere,
         age |-> IF present THEN t - w.index.Entries[key].CreatedAt ELSE 0]

NoPre == [init |-> FALSE, present |-> FALSE, fileThere |-> FALSE, age |-> 0]

\* the record of a Get or a Put
Last(op, key, src, r) ==
    [op |-> op, key |-> key, src |-> src, entry |-> r.entry, err |-> r.err,
     changed |-> r.w # World, pre |-> PreOf(World, key, now),
     memChanged |-> r.w.index # index,
     getChanged |-> Get(r.w, key, now).entry # Get(World, key, now).entry]

\* the record of an operation without a key
LastOp(op, r) ==
    [op |-> op, key |-> Nil, src |-> Nil, entry |-> Nil, err |-> r.err,
     changed |-> FALSE, pre |-> NoPre, before |-> Nil]

Apply(r) ==
    /\ index' = r.w.index
    /\ indexFile' = r.w.indexFile
    /\ files' = r.w.files

\* NewCacheAgent: a fresh agent (a new process) on the same cache directory
DoNewCacheAgent ==
    /\ index # Nil
    /\ index' = Nil
    /\ last' = LastOp("NewCacheAgent", Ret(World, Nil, NoErr))
    /\ rt' = Nil
    /\ UNCHANGED <<now, files, indexFile, evicted, keyLog, synthLog, run, cmdLog, postLog, procs,
                   voiceAgent, piperProc>>

DoInitialize ==
    /\ index = Nil
    /\ \E r \in {Initialize(World)} :
          Apply(r) /\ last' = [LastOp("Initialize", r) EXCEPT !.before = indexFile]
    /\ rt' = Nil
    /\ UNCHANGED <<now, evicted, keyLog, synthLog, run, cmdLog, postLog, procs,
                   voiceAgent, piperProc>>

DoGet(key) ==
    /\ \E r \in {Get(World, key, now)}, pre \in {PreOf(World, key, now)} :
           /\ Apply(r)
           /\ last' = Last("Get", key, Nil, r)
           /\ evicted' = IF pre.present /\ ~pre.fileThere
                         THEN evicted \cup {key} ELSE evicted
           /\ rt' = IF r.w = World THEN rt ELSE Nil
    /\ UNCHANGED <<now, keyLog, synthLog, run, cmdLog, postLog, procs,
                   voiceAgent, piperProc>>

DoPut(key, filePath, metadata) ==
    /\ \E r \in {Put(World, key, filePath, metadata, now)} :
           /\ Apply(r)
           /\ last' = Last("Put", key, filePath, r)
           /\ rt' = IF r.err = NoErr
                    THEN [key |-> key, src |-> filePath, content |-> files[filePath],
                          dst |-> r.w.index.Entries[key].FilePath, at |-> now,
                          cleaned |-> FALSE]
                    ELSE Nil
           /\ evicted' = IF r.err = NoErr THEN evicted \ {key} ELSE evicted
    /\ UNCHANGED <<now, keyLog, synthLog, run, cmdLog, postLog, procs,
                   voiceAgent, piperProc>>

DoRemove(key) ==
    /\ \E r \in {Remove(World, key)} :
          Apply(r) /\ last' = LastOp("Remove", r)
    /\ rt' = Nil
    /\ UNCHANGED <<now, evicted, keyLog, synthLog, run, cmdLog, postLog, procs,
                   voiceAgent, piperProc>>

\* a panic ends the process: the agent and its in-memory index are gone
DoPrune ==
    /\ index # Nil
    /\ \E r \in Prune(World, now) :
          /\ files' = r.w.files
          /\ indexFile' = r.w.indexFile
          /\ index' = IF r.err = "panic" THEN Nil ELSE r.w.index
          /\ last' = [LastOp("Prune", r) EXCEPT !.before = index.Entries]
    /\ rt' = Nil
    /\ UNCHANGED <<now, evicted, keyLog, synthLog, run, cmdLog, postLog, procs,
                   voiceAgent, piperProc>>

\* rt after a file was written or deleted from outside: the round trip goes
\* on when the file is the caller's own source and no cached file
Touched(path) ==
    IF rt # Nil /\ path = rt.src /\ path # rt.dst THEN [rt EXCEPT !.cleaned = TRUE] ELSE Nil

\* time passes
Tick ==
    /\ now < MaxClock
    /\ now' = now + 1
    /\ UNCHANGED <<files, indexFile, index, last, rt, evicted, keyLog, synthLog, run, cmdLog, postLog, procs,
                   voiceAgent, piperProc>>

\* the caller (or anyone) writes one of its files
CallerWrite(path, content) ==
    /\ files' = WriteF(files, path, content)
    /\ rt' = Touched(path)
    /\ UNCHANGED <<now, indexFile, index, last, evicted, keyLog, synthLog, run, cmdLog, postLog, procs,
                   voiceAgent, piperProc>>

\* a file is deleted from outside the agent: the caller's cleanup of its own
\* file, or a cached artifact removed externally
ExternalDelete(path) ==
    /\ path \in DOMAIN files
    /\ files' = DeleteF(files, path)
    /\ rt' = Touched(path)
    /\ UNCHANGED <<now, indexFile, index, last, evicted, keyLog, synthLog, run, cmdLog, postLog, procs,
                   voiceAgent, piperProc>>

NoLast == LastOp("none", [err |-> NoErr])

\* the runs that share the cache directory, the key of each (all distinct) and
\* the encoded file each has in its own scratch directory
Runs == 1 .. NumRuns
RunKey(p) == <<"k">> \o Dec(p)
RunOutput(p) == <<tempDir, <<"o">> \o Dec(p), ".mp3">>
IdleRun == [pc |-> "idle"]

\* NewVoiceCatalogAgent: no catalog yet
NewVoiceCatalogAgent ==
    [catalog |-> Nil, op |-> "none", file |-> Nil, selected |-> Nil, err |-> NoErr,
     loaded |-> FALSE]

\* before executePiper is called: no pipe, no child process, no goroutine
IdlePiper ==
    [pc |-> "idle", ret |-> NoErr, child |-> "none", stdin |-> "none", writer |-> "none",
     left |-> 0, buf |-> 0]

Init ==
    /\ now = 0
    /\ files = <<>>
    /\ indexFile = Nil
    /\ index = Nil
    /\ last = NoLast
    /\ rt = Nil
    /\ evicted = {}
    /\ keyLog = <<>>
    /\ synthLog = <<>>
    /\ run = IdleRun
    /\ cmdLog = <<>>
    /\ postLog = <<>>
    /\ procs = [p \in Runs |-> [pc |-> "start", index |-> Nil, seen |-> Nil]]
    /\ voiceAgent = NewVoiceCatalogAgent
    /\ piperProc = IdlePiper

NextCache ==
    \/ DoNewCacheAgent
    \/ DoInitialize
    \/ \E key \in Keys : DoGet(key)
    \/ \E key \in Keys, filePath \in SrcPaths, metadata \in Metadatas :
          DoPut(key, filePath, metadata)
    \/ \E key \in Keys : DoRemove(key)
    \/ DoPrune
    \/ Tick
    \/ \E path \in SrcPaths, content \in Contents : CallerWrite(path, content)
    \/ \E path \in DOMAIN files : ExternalDelete(path)

SpecCache == Init /\ [][NextCache]_vars

\* ------------------------------------------------------------------------
\* Properties of the cache (SpecCache)
\* ------------------------------------------------------------------------
\* C5: a successful Put(key, artifact, metadata) followed by Get(key) within
\* the TTL returns a non-nil entry with entry.Key = key whose file exists and
\* holds the bytes the artifact held when Put was called, for every source
\* path, one inside the cache directory included.
C5_PutGetRoundTrip ==
    (last.op = "Get" /\ rt # Nil /\ rt.key = last.key /\ last.pre.age < maxAge) =>
        /\ last.err = NoErr
        /\ last.entry # Nil
        /\ last.entry.Key = last.key
        /\ last.entry.FilePath \in DOMAIN files
        /\ files[last.entry.FilePath] = rt.content

\* C6: Get on a key that is not in the index of an initialized cache returns
\* a miss (nil entry), no error, and changes neither the index, nor the
\* persisted index, nor any file.
C6_UnknownKeyIsMiss ==
    (last.op = "Get" /\ last.pre.init /\ ~last.pre.present) =>
        /\ last.entry = Nil
        /\ last.err = NoErr
        /\ ~last.changed

C6_Witness ==
    /\ last.op = "Get" /\ last.pre.init /\ ~last.pre.present
    /\ index # Nil /\ DOMAIN index.Entries # {}

\* C7: a Get on an entry whose artifact file was deleted from outside returns
\* a miss without error; from then on, until the next Put of that key, the key
\* is in neither the in-memory index nor the persisted index, and every Get
\* of it on an initialized agent is a miss.
C7_MissingFileEvicted ==
    /\ (last.op = "Get" /\ last.pre.present /\ ~last.pre.fileThere) =>
           (last.entry = Nil /\ last.err = NoErr)
    /\ \A k \in evicted :
           /\ index # Nil => k \notin DOMAIN index.Entries
           /\ indexFile # Nil => k \notin DOMAIN indexFile.Entries
    /\ (last.op = "Get" /\ last.key \in evicted /\ last.pre.init) =>
           (last.entry = Nil /\ last.err = NoErr)

C7_Witness ==
    /\ last.op = "Get" /\ last.pre.present /\ ~last.pre.fileThere
    /\ last.key \in evicted
    /\ index # Nil /\ indexFile # Nil

\* C8: Get returns an entry only if, at the time of the call, the entry's file
\* exists and its age is strictly less than the TTL; an entry whose age has
\* reached or exceeded the TTL is reported as a miss.
C8_OnlyYoungerThanTTL ==
    (last.op = "Get" /\ last.pre.init) =>
        /\ last.entry # Nil => (last.pre.fileThere /\ last.pre.age < maxAge)
        /\ (last.pre.present /\ last.pre.age >= maxAge) => last.entry = Nil

\* C9: after a successful Put(key, src, metadata) the entry's file lies in the
\* cache directory and is not src, and the caller deleting or overwriting src
\* changes neither the cached bytes nor what Get(key) returns.
C9_PutNeverAliases ==
    rt # Nil =>
        /\ rt.dst # rt.src
        /\ rt.dst[1] = cacheDir
        /\ rt.dst \in DOMAIN files /\ files[rt.dst] = rt.content
        /\ now - rt.at <= maxAge => Get(World, rt.key, now).entry = index.Entries[rt.key]

\* C20: on an initialized cache, also one that holds expired entries, Prune
\* returns normally; afterwards the index holds no entry older than the TTL,
\* and the cached file of every entry it removed is deleted.
C20_PruneRemovesExpired ==
    [][DoPrune =>
          /\ last'.err = NoErr
          /\ index' # Nil
          /\ \A k \in DOMAIN index'.Entries : ~TooOld(index'.Entries[k], now)
          /\ \A k \in DOMAIN index.Entries \ DOMAIN index'.Entries :
                 index.Entries[k].FilePath \notin DOMAIN files'
      ]_vars

\* Prune has returned normally (no panic) and nothing has touched the cache
\* since
PruneReturned == last.op = "Prune" /\ last.err = NoErr
\* the keys the last Prune removed
PruneEvicted == DOMAIN last.before \ DOMAIN index.Entries

C22_EvictsOldestFirst ==
    PruneReturned =>
        /\ \A k \in PruneEvicted : \A j \in DOMAIN index.Entries :
               last.before[k].CreatedAt <= last.before[j].CreatedAt
        /\ \A k \in PruneEvicted :
               SumSizes(index.Entries) + last.before[k].FileSize > maxSize

\* C36: while a CacheAgent is initialized (no I/O error, no other writer), the
\* index persisted in index.json equals its in-memory index after every
\* operation, the eviction of a stale entry inside Get included.
C36_PersistedEqualsMemory ==
    index # Nil => indexFile = index

\* a Get has just dropped an entry whose file was gone, or one past the TTL
C36_Witness ==
    /\ last.op = "Get" /\ last.pre.present
    /\ index # Nil /\ last.key \notin DOMAIN index.Entries

\* ------------------------------------------------------------------------
\* One CacheAgent with Stats, two file extensions and failing writes
\* (SpecIndex)
\* ------------------------------------------------------------------------
\* Stats counting the files found in the cache directory
StatsFromDisk(w) ==
    IF w.index = Nil THEN [error |-> "cache not initialized"]
    ELSE [entries |-> Cardinality({p \in DOMAIN w.files : p[1] = cacheDir}),
          total_size |-> SumSizes(w.index.Entries),
          cache_dir |-> cacheDir]

\* CacheAgent.Stats
Stats(w) ==
    IF w.index = Nil THEN [error |-> "cache not initialized"]
    ELSE [entries |-> Cardinality(DOMAIN w.index.Entries),
          total_size |-> SumSizes(w.index.Entries),
          cache_dir |-> cacheDir]

DoStats ==
    /\ last' = [LastOp("Stats", Ret(World, Nil, NoErr)) EXCEPT !.before = Stats(World)]
    /\ UNCHANGED <<now, files, indexFile, index, rt, evicted, keyLog, synthLog, run, cmdLog,
                   postLog, procs,
                   voiceAgent, piperProc>>

\* the encoded file of a run with --format wav
TmpWav == <<tempDir, <<"o", "u", "t">>, ".wav">>
IndexSrcPaths == {TmpOut, TmpWav}
\* the ways a write into the cache directory fails
FailingIO == {"readonly", "indexlocked", "diskfull"}

\* a Put during which writing into the cache directory fails
DoPutFailing(key, filePath, metadata, io) ==
    /\ \E r0 \in {Put([World EXCEPT !.io = io], key, filePath, metadata, now)} :
       \E r \in {[r0 EXCEPT !.w.io = "ok"]} :
           /\ Apply(r)
           /\ last' = Last("Put", key, filePath, r)
    /\ rt' = Nil
    /\ UNCHANGED <<now, evicted, keyLog, synthLog, run, cmdLog, postLog, procs,
                   voiceAgent, piperProc>>

NextIndex ==
    \/ DoNewCacheAgent
    \/ DoInitialize
    \/ \E key \in Keys : DoGet(key)
    \/ \E key \in Keys, filePath \in IndexSrcPaths, metadata \in Metadatas :
          DoPut(key, filePath, metadata)
    \/ \E key \in Keys : DoRemove(key)
    \/ DoPrune
    \/ DoStats
    \/ Tick
    \/ \E path \in IndexSrcPaths : CallerWrite(path, <<1>>)

SpecIndex == Init /\ [][NextIndex]_vars

\* A cache directory whose writes may fail during a Put (SpecPutFails)
NextPutFails ==
    \/ DoInitialize
    \/ \E key \in Keys : DoGet(key)
    \/ \E key \in Keys, metadata \in Metadatas : DoPut(key, TmpOut, metadata)
    \/ \E key \in Keys, metadata \in Metadatas, io \in FailingIO :
          DoPutFailing(key, TmpOut, metadata, io)
    \/ Tick
    \/ CallerWrite(TmpOut, <<1>>)

SpecPutFails == Init /\ [][NextPutFails]_vars

\* the FileSize the index holds for a key, 0 when it holds none
IndexedSize(k) ==
    IF k \in DOMAIN index.Entries THEN index.Entries[k].FileSize ELSE 0

\* C35: Stats reports the index exactly: entries is the number of entries
\* in the index and total_size the sum of their FileSize, and an index without
\* entries is reported as 0 entries of total size 0.
C35_StatsReportsIndex ==
    (last.op = "Stats" /\ index # Nil) =>
        /\ DOMAIN last.before = {"entries", "total_size", "cache_dir"}
        /\ last.before.entries = Cardinality({k \in Keys : k \in DOMAIN index.Entries})
        /\ last.before.total_size = IndexedSize(Key1) + IndexedSize(Key2)
        /\ (index.Entries = <<>> =>
               last.before.entries = 0 /\ last.before.total_size = 0)

\* Stats answered for an index of two entries, one of them put twice
C35_Witness ==
    /\ last.op = "Stats" /\ index # Nil
    /\ last.before.entries = 2 /\ last.before.total_size = 2
    /\ Cardinality({p \in DOMAIN files : p[1] = cacheDir}) = 3

\* the artifact files in the cache directory
CachedFiles == {p \in DOMAIN files : p[1] = cacheDir}

\* C37: every artifact file in the cache directory is referenced by
\* exactly one index entry, and every index entry is stored under its own key
\* with a FilePath inside the cache directory.
C37_NoOrphanArtifact ==
    index # Nil =>
        /\ \A p \in CachedFiles :
               Cardinality({k \in DOMAIN index.Entries :
                               index.Entries[k].FilePath = p}) = 1
        /\ \A k \in DOMAIN index.Entries :
               index.Entries[k].Key = k /\ index.Entries[k].FilePath[1] = cacheDir

\* C38: a Put that returns an error leaves the in-memory index as it was
\* before the call, and a later Get of the key answers as before the call.
C38_FailedPutChangesNothing ==
    (last.op = "Put" /\ last.err # NoErr) =>
        ~last.memChanged /\ ~last.getChanged

\* ------------------------------------------------------------------------
\* A cache whose index file gets damaged (SpecRecover)
\* ------------------------------------------------------------------------
\* the index file is overwritten with bytes that are no JSON index (a crash
\* inside saveIndex, a disk error, another program)
CorruptIndex ==
    /\ indexFile # Nil
    /\ Decodable(indexFile)
    /\ indexFile' = Garbage
    /\ last' = LastOp("CorruptIndex", Ret(World, Nil, NoErr))
    /\ UNCHANGED <<now, files, index, rt, evicted, keyLog, synthLog, run, cmdLog, postLog, procs,
                   voiceAgent, piperProc>>

NextRecover ==
    \/ DoNewCacheAgent
    \/ DoInitialize
    \/ \E key \in Keys : DoGet(key)
    \/ \E key \in Keys, metadata \in Metadatas : DoPut(key, TmpOut, metadata)
    \/ Tick
    \/ \E content \in Contents : CallerWrite(TmpOut, content)
    \/ CorruptIndex

SpecRecover == Init /\ [][NextRecover]_vars

\* Initialize has just run on an index file that does not decode
InitializedOnGarbage == last.op = "Initialize" /\ last.before = Garbage

\* C30: Initialize on a cache directory whose index file cannot be decoded
\* returns success with an empty index and persists that empty index; from
\* there Get of any key is a miss without error and Put of an existing file
\* succeeds and is found by Get.
C30_UndecodableIndexRecovers ==
    InitializedOnGarbage =>
        /\ last.err = NoErr
        /\ index = EmptyIndex
        /\ indexFile = EmptyIndex
        /\ \A key \in Keys : Get(World, key, now) = Ret(World, Nil, NoErr)
        /\ \A key \in Keys, metadata \in Metadatas :
               TmpOut \in DOMAIN files =>
                   LET put == Put(World, key, TmpOut, metadata, now)
                   IN  /\ put.err = NoErr
                       /\ Get(put.w, key, now).entry = put.w.index.Entries[key]
                       /\ put.w.indexFile = put.w.index

\* Initialize ran on a damaged index while the caller has a file to cache
C30_Witness == InitializedOnGarbage /\ TmpOut \in DOMAIN files

\* ------------------------------------------------------------------------
\* Concurrent pipeline runs on one cache directory (SpecShared)
\* ------------------------------------------------------------------------
\* Every run of executeSynthesisPipeline makes its own CacheAgent on the same
\* directory: the index file and the cached files are shared, the in-memory
\* index is the run's own.  saveIndex is two steps another run can come
\* between: os.Create leaves index.json empty, Encode then writes the index.

\* what the CacheAgent of run p works on
WorldOf(p) == [World EXCEPT !.index = procs[p].index]

\* cacheAgent.Initialize up to the read of index.json; a missing or
\* undecodable file is followed by saveIndex of the empty index
RunInitialize(p) ==
    /\ procs[p].pc = "start"
    /\ LET r == Initialize(WorldOf(p))
       IN  procs' = [procs EXCEPT ![p].index = r.w.index,
                                  ![p].seen = indexFile,
                                  ![p].pc = IF r.w.indexFile = indexFile
                                            THEN "loaded" ELSE "init-create"]
    /\ UNCHANGED <<now, files, indexFile, index, last, rt, evicted, keyLog, synthLog, run,
                   cmdLog, postLog,
                   voiceAgent, piperProc>>

\* saveIndex, first half: os.Create truncates index.json
RunCreateIndex(p) ==
    /\ procs[p].pc \in {"init-create", "put-create"}
    /\ indexFile' = Garbage
    /\ procs' = [procs EXCEPT ![p].pc = IF @ = "init-create" THEN "init-encode"
                                        ELSE "put-encode"]
    /\ UNCHANGED <<now, files, index, last, rt, evicted, keyLog, synthLog, run, cmdLog,
                   postLog,
                   voiceAgent, piperProc>>

\* saveIndex, second half: Encode writes the run's own index
RunEncodeIndex(p) ==
    /\ procs[p].pc \in {"init-encode", "put-encode"}
    /\ indexFile' = procs[p].index
    /\ procs' = [procs EXCEPT ![p].pc = IF @ = "init-encode" THEN "loaded" ELSE "done"]
    /\ UNCHANGED <<now, files, index, last, rt, evicted, keyLog, synthLog, run, cmdLog,
                   postLog,
                   voiceAgent, piperProc>>

\* cacheAgent.Get misses (the key is new) and postAgent.Process writes the
\* encoded file
RunProcess(p) ==
    /\ procs[p].pc = "loaded"
    /\ Get(WorldOf(p), RunKey(p), now) = Ret(WorldOf(p), Nil, NoErr)
    /\ files' = WriteF(files, RunOutput(p), <<1>>)
    /\ procs' = [procs EXCEPT ![p].pc = "encoded"]
    /\ UNCHANGED <<now, indexFile, index, last, rt, evicted, keyLog, synthLog, run, cmdLog,
                   postLog,
                   voiceAgent, piperProc>>

\* cacheAgent.Put up to its call of saveIndex
RunPut(p) ==
    /\ procs[p].pc = "encoded"
    /\ LET r == Put(WorldOf(p), RunKey(p), RunOutput(p), "m1", now)
       IN  /\ r.err = NoErr
           /\ files' = r.w.files
           /\ procs' = [procs EXCEPT ![p].index = r.w.index, ![p].pc = "put-create"]
    /\ UNCHANGED <<now, indexFile, index, last, rt, evicted, keyLog, synthLog, run, cmdLog,
                   postLog,
                   voiceAgent, piperProc>>

NextShared ==
    \E p \in Runs :
        \/ RunInitialize(p)
        \/ RunCreateIndex(p)
        \/ RunEncodeIndex(p)
        \/ RunProcess(p)
        \/ RunPut(p)

SpecShared == Init /\ [][NextShared]_vars

\* C23: a run that loads index.json while another is inside saveIndex reads
\* a complete index, the one before or the one after the write: no loadIndex
\* ever reads a file that does not decode.
C23_IndexWriteAtomic ==
    \A p \in Runs : procs[p].seen = Nil \/ Decodable(procs[p].seen)

\* C24: once every one of the concurrent runs has completed its Put, the
\* persisted index decodes and holds an entry for the key of each run.
C24_NoLostUpdate ==
    (\A p \in Runs : procs[p].pc = "done") =>
        /\ Decodable(indexFile)
        /\ \A p \in Runs : RunKey(p) \in DOMAIN indexFile.Entries

\* ------------------------------------------------------------------------
\* GenerateKey calls between cache operations (SpecKey)
\* ------------------------------------------------------------------------
KeyOf(in) == GenerateKey(in.content, in.voice, in.synth, in.post)

\* the inputs of the logged calls
KeyCallInputs ==
    [content : [Paragraphs : ParagraphSets, Language : {"en-US"},
                WordCount : {2}, Source : {"a.txt"}],
     voice : {ModelVoice1, BuiltInVoice},
     synth : [Speed : {10000, 10300}, Noise : {6670}, NoiseW : {8000}, Speaker : {0}],
     post : [Format : { <<"m", "p", "3">> }, SampleRate : {48000}, Bitrate : {192},
             LoudnessLUFS : {-1600}]]

\* every input the logged calls are compared with
AllKeyInputs ==
    [content : TextContents, voice : AllVoices, synth : SynthParamSets, post : PostParamSets]

\* a call of GenerateKey; the second call repeats the inputs of the first
DoGenerateKey(in) ==
    /\ Len(keyLog) < MaxKeyCalls
    /\ keyLog # <<>> => in = keyLog[1].in
    /\ keyLog' = Append(keyLog,
                        [in |-> in, key |-> KeyOf(in), at |-> now,
                         cached |-> index # Nil /\ DOMAIN index.Entries # {}])
    /\ UNCHANGED cacheVars
    /\ UNCHANGED <<synthLog, run, cmdLog, postLog, procs,
                   voiceAgent, piperProc>>

LoggedKeys == {keyLog[i].key : i \in DOMAIN keyLog}

NextKey ==
    \/ \E in \in KeyCallInputs : DoGenerateKey(in)
    \/ DoNewCacheAgent
    \/ DoInitialize
    \/ \E key \in LoggedKeys : DoGet(key)
    \/ \E key \in LoggedKeys : DoPut(key, TmpOut, "m1")
    \/ \E key \in LoggedKeys : DoRemove(key)
    \/ DoPrune
    \/ Tick
    \/ CallerWrite(TmpOut, <<1>>)
    \/ \E path \in DOMAIN files : ExternalDelete(path)

SpecKey == Init /\ [][NextKey]_vars

\* the fields the cache key is said to depend on
KeyFields(in) ==
    <<in.content.Paragraphs, in.voice.ID, in.synth.Speed, in.synth.Noise, in.synth.NoiseW,
      in.post.Format, in.post.SampleRate, in.post.Bitrate>>

\* the inputs that agree with in on KeyFields, on the speaker index and on the
\* target loudness
SameHashedFields(in) ==
    { [content |-> [Paragraphs |-> in.content.Paragraphs, Language |-> l,
                    WordCount |-> wc, Source |-> s],
       voice |-> v, synth |-> in.synth, post |-> in.post]
      : l \in Languages, wc \in WordCounts, s \in Sources,
        v \in {x \in AllVoices : x.ID = in.voice.ID} }

\* the inputs that agree with in on KeyFields
SameKeyFields(in) ==
    { [r EXCEPT !.synth.Speaker = sp, !.post.LoudnessLUFS = ld]
      : r \in SameHashedFields(in), sp \in Speakers, ld \in Loudnesses }

C3_KeyChangesWithKeyFields ==
    \A i \in DOMAIN keyLog : \A in \in AllKeyInputs :
        KeyFields(in) # KeyFields(keyLog[i].in) => KeyOf(in) # keyLog[i].key

Contains(str, ch) == \E i \in DOMAIN str : str[i] = ch

\* isMacOSVoice taking only a voice without any path for a built-in one
isMacOSVoiceEmptyPath(voice) == voice.Path = <<>>

\* SynthAgent.isMacOSVoice: no path separator and no extension in voice.Path
isMacOSVoice(voice) == ~Contains(voice.Path, "/") /\ ~Contains(voice.Path, ".")

\* SynthAgent.getDefaultParams (speed 1.03, noise 0.667, noiseW 0.8)
getDefaultParams == [Speed |-> 10300, Noise |-> 6670, NoiseW |-> 8000, Speaker |-> 0]

\* SynthAgent.validateParams, values in ten-thousandths
validateParams(params) ==
    IF FLess(params.Speed, 5000) \/ FGreater(params.Speed, 20000)
    THEN "speed must be between 0.5 and 2.0"
    ELSE IF FLess(params.Noise, 0) \/ FGreater(params.Noise, 10000)
    THEN "noise must be between 0.0 and 1.0"
    ELSE IF FLess(params.NoiseW, 0) \/ FGreater(params.NoiseW, 10000)
    THEN "noiseW must be between 0.0 and 1.0"
    ELSE IF params.Speaker < 0 THEN "speaker must be >= 0"
    ELSE NoErr

\* The engines as the agent finds them during one call:
\*   modelExists  os.Stat(voice.Path) finds the model file
\*   piper        how executePiper ends ("ok", or "fail": not started / exit # 0)
\*   macAvail     MacOSTTSAgent.IsAvailable
\*   say          how the say command ends
\*   outFile      the engine that reported success left a file at outputPath
\*   outSize      the size of that file
Envs == [modelExists : BOOLEAN, piper : {"ok", "fail"}, macAvail : BOOLEAN,
         say : {"ok", "fail"}, outFile : BOOLEAN, outSize : {0, 1}]

\* the diagnostic text an engine failure carries
NoDiag == ""
PiperDiag == "piper execution failed"
MacDiag == "macOS TTS failed"

\* an error of Synthesize: its message, the engine diagnostics it prints, and
\* the validateParams error it wraps (%w)
SynthErr(msg, piper, macos) ==
    [msg |-> msg, piper |-> piper, macos |-> macos, cause |-> NoDiag]
NoSynthErr == SynthErr(NoErr, NoDiag, NoDiag)

\* filepath.Join(s.tempDir, "synth_<UnixNano>.wav"); nonce stands for the
\* nanosecond clock, which differs from call to call
SynthOutputPath(nonce) == <<tempDir, <<"s", "y", "n", "t", "h", "_">> \o Dec(nonce), ".wav">>

\* a file of n bytes
FileOfSize(n) == [i \in 1..n |-> 1]

\* what Synthesize returns, with the engine processes it ran, in order
SynthRet(attempts, result, err) == [attempts |-> attempts, result |-> result, err |-> err]

\* the tail of Synthesize reporting two channels
SynthFinishStereo(attempts, voice, outputPath, env) ==
    IF ~env.outFile
    THEN SynthRet(attempts, Nil, SynthErr("failed to get output file info", NoDiag, NoDiag))
    ELSE SynthRet(attempts,
                  [OutputPath |-> outputPath, SampleRate |-> voice.SampleRate,
                   Channels |-> 2, FileSize |-> env.outSize],
                  NoSynthErr)

\* the tail of Synthesize trusting the engine without looking at the file
SynthFinishNoStat(attempts, voice, outputPath, env) ==
    SynthRet(attempts,
             [OutputPath |-> outputPath, SampleRate |-> voice.SampleRate,
              Channels |-> 1, FileSize |-> IF env.outFile THEN env.outSize ELSE 0],
             NoSynthErr)

\* the tail of Synthesize: os.Stat(outputPath) and the SynthResult
SynthFinish(attempts, voice, outputPath, env) ==
    IF ~env.outFile
    THEN SynthRet(attempts, Nil, SynthErr("failed to get output file info", NoDiag, NoDiag))
    ELSE SynthRet(attempts,
                  [OutputPath |-> outputPath, SampleRate |-> voice.SampleRate,
                   Channels |-> 1, FileSize |-> env.outSize],
                  NoSynthErr)

\* Synthesize running Piper a second time before it falls back
SynthesizeRetriesPiper(dryRun, normalized, voice, params0, env, nonce) ==
    LET params == IF params0 = Nil THEN getDefaultParams ELSE params0
        outputPath == SynthOutputPath(nonce)
    IN  IF validateParams(params) # NoErr
        THEN SynthRet(<<>>, Nil, SynthErr("invalid synthesis parameters", NoDiag, NoDiag))
        ELSE IF env.piper = "ok" THEN SynthFinish(<<"piper">>, voice, outputPath, env)
        ELSE IF env.macAvail /\ env.say = "ok"
        THEN SynthFinish(<<"piper", "piper", "macos">>, voice, outputPath, env)
        ELSE SynthRet(<<"piper", "piper">>, Nil,
                      SynthErr("piper synthesis failed and no fallback available",
                               PiperDiag, NoDiag))

Synthesize(dryRun, normalized, voice, params0, env, nonce) ==
    IF normalized = Nil THEN SynthRet(<<>>, Nil, SynthErr("normalized text is nil", NoDiag, NoDiag))
    ELSE IF voice = Nil THEN SynthRet(<<>>, Nil, SynthErr("voice is nil", NoDiag, NoDiag))
    ELSE
    LET params == IF params0 = Nil THEN getDefaultParams ELSE params0
        outputPath == SynthOutputPath(nonce)
    IN  IF validateParams(params) # NoErr
        THEN SynthRet(<<>>, Nil,
                      [SynthErr("invalid synthesis parameters", NoDiag, NoDiag)
                           EXCEPT !.cause = validateParams(params)])
        ELSE IF ~dryRun /\ ~isMacOSVoice(voice) /\ ~env.modelExists
        THEN SynthRet(<<>>, Nil, SynthErr("voice model file not found", NoDiag, NoDiag))
        ELSE IF dryRun
        THEN SynthRet(<<>>,
                      [OutputPath |-> outputPath, SampleRate |-> voice.SampleRate,
                       Channels |-> 1, FileSize |-> 0],
                      NoSynthErr)
        ELSE IF isMacOSVoice(voice)
        THEN IF env.macAvail
             THEN IF env.say = "ok"
                  THEN SynthFinish(<<"macos">>, voice, outputPath, env)
                  ELSE SynthRet(<<"macos">>, Nil,
                                SynthErr("macOS TTS synthesis failed", NoDiag, MacDiag))
             ELSE SynthRet(<<>>, Nil, SynthErr("macOS TTS not available", NoDiag, NoDiag))
        ELSE IF env.piper = "ok"
        THEN SynthFinish(<<"piper">>, voice, outputPath, env)
        ELSE IF env.macAvail
        THEN IF env.say = "ok"
             THEN SynthFinish(<<"piper", "macos">>, voice, outputPath, env)
             \* both verbs of the message are given the inner err, the one
             \* macTTS.Synthesize returned
             ELSE SynthRet(<<"piper", "macos">>, Nil,
                           SynthErr("both Piper and macOS TTS failed", MacDiag, MacDiag))
        ELSE SynthRet(<<"piper">>, Nil,
                      SynthErr("piper synthesis failed and no fallback available",
                               PiperDiag, NoDiag))

\* ------------------------------------------------------------------------
\* Synthesize calls (SpecSynth)
\* ------------------------------------------------------------------------
NormalizedTexts == [Sentences : { << <<"h", "i">> >> }, Language : Languages]
SynthCallParams ==
    [Speed : {10300, 4000}, Noise : {6670}, NoiseW : {8000}, Speaker : {0, 1}] \cup {Nil}
SynthCalls == [dryRun : BOOLEAN, normalized : NormalizedTexts, voice : {ModelVoice1, BuiltInVoice},
               params : SynthCallParams, env : Envs]

\* one call of Synthesize; the second call of the log repeats the first with
\* the same engines
DoSynthesize(c) ==
    /\ Len(synthLog) < MaxSynthCalls
    /\ synthLog # <<>> => c = synthLog[1].call
    /\ LET nonce == Len(synthLog)
           r == Synthesize(c.dryRun, c.normalized, c.voice, c.params, c.env, nonce)
       IN  /\ synthLog' = Append(synthLog, [call |-> c, ret |-> r, at |-> now])
           /\ files' = IF ~c.dryRun /\ r.attempts # <<>> /\ c.env.outFile
                          /\ r.err.msg \in {NoErr, "failed to get output file info"}
                       THEN WriteF(files, SynthOutputPath(nonce), FileOfSize(c.env.outSize))
                       ELSE files
    /\ UNCHANGED <<now, indexFile, index, last, rt, evicted, keyLog, run, cmdLog, postLog, procs,
                   voiceAgent, piperProc>>

NextSynth ==
    \/ \E c \in SynthCalls : DoSynthesize(c)
    \/ Tick

SpecSynth == Init /\ [][NextSynth]_vars

ReachesEngines(c) ==
    /\ ~c.dryRun
    /\ c.params = Nil \/ validateParams(c.params) = NoErr

\* C11: for a built-in voice (no model file) Synthesize never starts Piper,
\* whether the built-in engine then succeeds or fails; when the built-in
\* engine is available it is the one engine that runs.
C11_BuiltInSkipsPrimary ==
    \A i \in DOMAIN synthLog :
        LET c == synthLog[i].call
            r == synthLog[i].ret
        IN  c.voice = BuiltInVoice =>
                /\ \A j \in DOMAIN r.attempts : r.attempts[j] # "piper"
                /\ (ReachesEngines(c) /\ c.env.macAvail) => r.attempts = <<"macos">>
                /\ (ReachesEngines(c) /\ ~c.env.macAvail) => r.attempts = <<>>

C11_Witness ==
    \E i \in DOMAIN synthLog :
        /\ synthLog[i].call.voice = BuiltInVoice
        /\ synthLog[i].call.env.piper = "ok"
        /\ synthLog[i].ret.attempts = <<"macos">>
        /\ synthLog[i].ret.err.msg = "macOS TTS synthesis failed"

\* C12: every primary failure of a model voice, Piper failing as well as the
\* model file missing, leads to an attempt of the built-in engine (where it is
\* available) before Synthesize reports a failure.
C12_EveryPrimaryFailureFallsBack ==
    \A i \in DOMAIN synthLog :
        LET c == synthLog[i].call
            r == synthLog[i].ret
        IN  (/\ c.voice = ModelVoice1
             /\ ReachesEngines(c)
             /\ ~c.env.modelExists \/ c.env.piper = "fail"
             /\ c.env.macAvail)
            => (r.attempts # <<>> /\ r.attempts[Len(r.attempts)] = "macos")

C14_BothFailuresDistinct ==
    \A i \in DOMAIN synthLog :
        LET c == synthLog[i].call
            r == synthLog[i].ret
        IN  (c.voice = ModelVoice1 /\ ReachesEngines(c) /\ c.env.modelExists
             /\ c.env.piper = "fail" /\ r.err # NoSynthErr /\ r.result = Nil
             /\ r.err.msg # "failed to get output file info")
            => /\ r.err.piper = PiperDiag
               /\ r.attempts = <<"piper", "macos">>
                      => (r.err.macos = MacDiag /\ r.err.macos # r.err.piper)
               /\ r.attempts = <<"piper">>
                      => r.err.msg = "piper synthesis failed and no fallback available"

\* ------------------------------------------------------------------------
\* Synthesize calls with parameters around the bounds (SpecValidate)
\* ------------------------------------------------------------------------
\* speed 0.4999, 0.5, 2.0, 2.0001; noise and noiseW -0.0001, 0, 1.0, 1.0001;
\* and the float64 value NaN
BoundaryParamSets ==
    [Speed : {4999, 5000, 20000, 20001, NaN}, Noise : {0 - 1, 0, 10000, 10001},
     NoiseW : {0 - 1, 0, 10000, 10001, NaN}, Speaker : {0 - 1, 0, 1}]
ValidateCalls ==
    [dryRun : BOOLEAN, normalized : [Sentences : { << <<"h", "i">> >> }, Language : {"en-US"}],
     voice : {ModelVoice1}, params : BoundaryParamSets,
     env : [modelExists : {TRUE}, piper : {"ok"}, macAvail : {FALSE}, say : {"ok"},
            outFile : {TRUE}, outSize : {1}]]

NextValidate ==
    \/ \E c \in ValidateCalls : DoSynthesize(c)
    \/ Tick

SpecValidate == Init /\ [][NextValidate]_vars

\* the bounds of SynthParams as the data model states them
SynthParamsInBounds(p) ==
    /\ p.Speed # NaN /\ p.Speed >= 5000 /\ p.Speed <= 20000
    /\ p.Noise # NaN /\ p.Noise >= 0 /\ p.Noise <= 10000
    /\ p.NoiseW # NaN /\ p.NoiseW >= 0 /\ p.NoiseW <= 10000
    /\ p.Speaker >= 0

\* C15: validateParams accepts a parameter set exactly when speed is in
\* [0.5, 2.0], noise and noiseW are in [0, 1] and speaker >= 0; for every
\* other parameter set Synthesize returns the validation error and no result.
C15_ValidateParamsIffInBounds ==
    \A i \in DOMAIN synthLog :
        LET p == synthLog[i].call.params
            r == synthLog[i].ret
        IN  /\ (validateParams(p) = NoErr) <=> SynthParamsInBounds(p)
            /\ ~SynthParamsInBounds(p) =>
                   /\ r.result = Nil /\ r.attempts = <<>>
                   /\ r.err.msg = "invalid synthesis parameters"
                   /\ r.err.cause = validateParams(p)

\* the message for the first field, in the order speed, noise, noiseW,
\* speaker, whose value lies outside the bounds of the data model
FirstViolation(p) ==
    IF ~(p.Speed # NaN /\ p.Speed >= 5000 /\ p.Speed <= 20000)
    THEN "speed must be between 0.5 and 2.0"
    ELSE IF ~(p.Noise # NaN /\ p.Noise >= 0 /\ p.Noise <= 10000)
    THEN "noise must be between 0.0 and 1.0"
    ELSE IF ~(p.NoiseW # NaN /\ p.NoiseW >= 0 /\ p.NoiseW <= 10000)
    THEN "noiseW must be between 0.0 and 1.0"
    ELSE IF p.Speaker < 0 THEN "speaker must be >= 0"
    ELSE NoErr

\* C34: when several synthesis parameters are out of bounds at once, the
\* error Synthesize wraps is the one of the first violated field in the
\* order speed, noise, noiseW, speaker, naming that field and its range.
C34_FirstViolationReported ==
    \A i \in DOMAIN synthLog :
        LET p == synthLog[i].call.params
            r == synthLog[i].ret
        IN  ~SynthParamsInBounds(p) =>
                /\ r.err.msg = "invalid synthesis parameters"
                /\ r.err.cause = FirstViolation(p)

\* ------------------------------------------------------------------------
\* SynthAgent.buildPiperCommand and GetCommandLine
\* ------------------------------------------------------------------------
\* the piperPath the pipeline gives its agent: NewSynthAgent("piper", tempDir)
piperPath == <<"p", "i", "p", "e", "r">>

\* exec.Command(name, ...): a name without a path separator is looked up in
\* PATH, and cmd.Path is the file found there, the bare name when none is
CommandPath(name, installed) ==
    IF ~Contains(name, "/") /\ installed THEN <<"/", "b", "i", "n", "/">> \o name ELSE name

\* the text of a model path <<dir, name, ext>>
PathText(path) == <<path[1], "/">> \o path[2] \o <<path[3]>>

\* a number of thousandths written with three decimals
ThreeDecimals(t) ==
    Dec(t \div 1000) \o <<".">>
    \o <<Digit[((t % 1000) \div 100) + 1], Digit[((t \div 10) % 10) + 1], Digit[(t % 10) + 1]>>

\* %.3f of 1.0 / speed, speed in ten-thousandths: the quotient 10^7 / speed in
\* thousandths, rounded to nearest (no speed of the model gives a tie); 1/0 is
\* +Inf and 1/NaN is NaN
LengthScaleText(speed) ==
    IF speed = NaN THEN <<"N", "a", "N">>
    ELSE IF speed = 0 THEN <<"+", "I", "n", "f">>
    ELSE LET a == IF speed < 0 THEN 0 - speed ELSE speed
             t == (2 * 10000000 + a) \div (2 * a)
         IN  (IF speed < 0 /\ t # 0 THEN <<"-">> ELSE <<>>) \o ThreeDecimals(t)

\* the Cmd that exec.Command returns: Process stays nil until Start
Cmd(path, args) == [Path |-> path, Args |-> args, Process |-> Nil]

\* buildPiperCommand writing the speed itself as the length scale
buildPiperCommandNoInverse(agent, modelPath, outputPath, params, installed) ==
    Cmd(CommandPath(agent.piperPath, installed),
        << <<"--model">>, modelPath, <<"--output_file">>, PathText(outputPath),
           <<"--length_scale">>, Fmt3(params.Speed),
           <<"--noise_scale">>, Fmt3(params.Noise),
           <<"--noise_w">>, Fmt3(params.NoiseW) >>
        \o (IF params.Speaker > 0 THEN << <<"--speaker">>, Dec(params.Speaker) >> ELSE <<>>))

\* buildPiperCommand adding a flag of its own when the agent is in dry-run mode
buildPiperCommandDryRunFlag(agent, modelPath, outputPath, params, installed) ==
    Cmd(CommandPath(agent.piperPath, installed),
        << <<"--model">>, modelPath, <<"--output_file">>, PathText(outputPath),
           <<"--length_scale">>, LengthScaleText(params.Speed),
           <<"--noise_scale">>, Fmt3(params.Noise),
           <<"--noise_w">>, Fmt3(params.NoiseW) >>
        \o (IF params.Speaker > 0 THEN << <<"--speaker">>, Dec(params.Speaker) >> ELSE <<>>)
        \o (IF agent.dryRun THEN << <<"--dry-run">> >> ELSE <<>>))

\* SynthAgent.buildPiperCommand.  A flag is one piece of text; the values are
\* character sequences.
buildPiperCommand(agent, modelPath, outputPath, params, installed) ==
    Cmd(CommandPath(agent.piperPath, installed),
        << <<"--model">>, modelPath, <<"--output_file">>, PathText(outputPath),
           <<"--length_scale">>, LengthScaleText(params.Speed),
           <<"--noise_scale">>, Fmt3(params.Noise),
           <<"--noise_w">>, Fmt3(params.NoiseW) >>
        \o (IF params.Speaker > 0 THEN << <<"--speaker">>, Dec(params.Speaker) >> ELSE <<>>))

RECURSIVE Join(_, _)
\* strings.Join
Join(strs, sep) ==
    IF strs = <<>> THEN <<>>
    ELSE IF Len(strs) = 1 THEN strs[1]
    ELSE strs[1] \o <<sep>> \o Join(Tail(strs), sep)

\* SynthAgent.GetCommandLine: the Cmd built and its text
GetCommandLine(agent, voice, params0, outputPath, installed) ==
    LET params == IF params0 = Nil THEN getDefaultParams ELSE params0
        cmd == buildPiperCommand(agent, voice.Path, outputPath, params, installed)
    IN  [cmd |-> cmd, line |-> Join(<<cmd.Path>> \o cmd.Args, " ")]

\* ------------------------------------------------------------------------
\* GetCommandLine calls (SpecCommand)
\* ------------------------------------------------------------------------
\* speeds 0.5, 1.0, 1.03, 2.0; noise 0.667, 0.5; noiseW 0.8, 0.5
CmdParamSets ==
    [Speed : {5000, 10000, 10300, 20000}, Noise : {6670, 5000}, NoiseW : {8000, 5000},
     Speaker : {0, 1}] \cup {Nil}
\* installed: whether PATH holds a piper executable at the time of the call
CmdCalls ==
    [dryRun : BOOLEAN, voice : {ModelVoice1, BuiltInVoice}, params : CmdParamSets,
     outputPath : {TmpOut, SynthOutputPath(0)}, installed : BOOLEAN]

\* one call of GetCommandLine; later calls of the log repeat the voice, the
\* params and the output path of the first, on any agent and in any state
DoGetCommandLine(c) ==
    /\ Len(cmdLog) < MaxCmdCalls
    /\ cmdLog # <<>> =>
           /\ c.voice = cmdLog[1].call.voice
           /\ c.params = cmdLog[1].call.params
           /\ c.outputPath = cmdLog[1].call.outputPath
    /\ LET r == GetCommandLine([piperPath |-> piperPath, dryRun |-> c.dryRun],
                               c.voice, c.params, c.outputPath, c.installed)
       IN  cmdLog' = Append(cmdLog, [call |-> c, cmd |-> r.cmd, line |-> r.line,
                                     cacheReady |-> index # Nil,
                                     filesThere |-> DOMAIN files])
    /\ UNCHANGED <<now, files, indexFile, index, last, rt, evicted, keyLog, synthLog, run,
                   postLog, procs,
                   voiceAgent, piperProc>>

NextCommand ==
    \/ \E c \in CmdCalls : DoGetCommandLine(c)
    \/ CallerWrite(TmpOut, <<1>>)
    \/ DoInitialize

SpecCommand == Init /\ [][NextCommand]_vars

\* reading a text of the form d.ddd back as a number of thousandths
IsDigit(ch) == \E d \in 0..9 : Digit[d + 1] = ch
DigitValue(ch) == CHOOSE d \in 0..9 : Digit[d + 1] = ch
HasThreeDecimals(txt) ==
    /\ Len(txt) >= 5
    /\ txt[Len(txt) - 3] = "."
    /\ \A i \in DOMAIN txt : i # Len(txt) - 3 => IsDigit(txt[i])
RECURSIVE ParseNat(_)
ParseNat(txt) ==
    IF txt = <<>> THEN 0
    ELSE 10 * ParseNat(SubSeq(txt, 1, Len(txt) - 1)) + DigitValue(txt[Len(txt)])
Thousandths(txt) ==
    1000 * ParseNat(SubSeq(txt, 1, Len(txt) - 4))
    + ParseNat(SubSeq(txt, Len(txt) - 2, Len(txt)))
Distance(a, b) == IF a < b THEN b - a ELSE a - b

\* the argument that follows a flag which occurs exactly once
FlagOnce(args, flag) ==
    Cardinality({i \in 1..(Len(args) - 1) : args[i] = flag}) = 1
ArgAfter(args, flag) == args[(CHOOSE i \in 1..(Len(args) - 1) : args[i] = flag) + 1]

\* the params a logged GetCommandLine call used
CmdParams(e) == IF e.call.params = Nil THEN getDefaultParams ELSE e.call.params

\* C18: for every speed s in [0.5, 2.0] the command carries --length_scale
\* followed by 1/s with exactly 3 decimals, the nearest thousandth to 1/s
\* (1.03 gives 0.971, 1.0 gives 1.000), and --noise_scale and --noise_w
\* followed by noise and noiseW with exactly 3 decimals (0.667 gives 0.667,
\* 0.5 gives 0.500).
C18_LengthScaleIsInverseSpeed ==
    \A k \in DOMAIN cmdLog :
        LET p == CmdParams(cmdLog[k])
            a == cmdLog[k].cmd.Args
            ls == ArgAfter(a, <<"--length_scale">>)
            ns == ArgAfter(a, <<"--noise_scale">>)
            nw == ArgAfter(a, <<"--noise_w">>)
        IN  (p.Speed >= 5000 /\ p.Speed <= 20000) =>
            /\ FlagOnce(a, <<"--length_scale">>)
            /\ FlagOnce(a, <<"--noise_scale">>)
            /\ FlagOnce(a, <<"--noise_w">>)
            /\ HasThreeDecimals(ls)
            /\ 2 * Distance(Thousandths(ls) * p.Speed, 10000000) <= p.Speed
            /\ HasThreeDecimals(ns)
            /\ 2 * Distance(10 * Thousandths(ns), p.Noise) <= 10
            /\ HasThreeDecimals(nw)
            /\ 2 * Distance(10 * Thousandths(nw), p.NoiseW) <= 10
            /\ p.Speed = 10300 => ls = <<"0", ".", "9", "7", "1">>
            /\ p.Speed = 10000 => ls = <<"1", ".", "0", "0", "0">>
            /\ p.Noise = 6670 => ns = <<"0", ".", "6", "6", "7">>
            /\ p.Noise = 5000 => ns = <<"0", ".", "5", "0", "0">>
            /\ p.NoiseW = 5000 => nw = <<"0", ".", "5", "0", "0">>

C18_Witness ==
    \E k \in DOMAIN cmdLog :
        /\ cmdLog[k].call.params # Nil
        /\ cmdLog[k].call.params.Speed = 10300
        /\ cmdLog[k].call.params.Noise = 5000
        /\ ArgAfter(cmdLog[k].cmd.Args, <<"--length_scale">>) = <<"0", ".", "9", "7", "1">>
        /\ ArgAfter(cmdLog[k].cmd.Args, <<"--noise_scale">>) = <<"0", ".", "5", "0", "0">>

\* C19: two GetCommandLine calls with the same voice, params and output path
\* give the same ordered argument list, whatever the agent's dry-run flag,
\* the calls made before, the cache and the file system are (the whole
\* command line is the same too when PATH resolves the program alike), and
\* the command built has no process.
C19_CommandLineIsPure ==
    \A i, j \in DOMAIN cmdLog :
        (/\ cmdLog[i].call.voice = cmdLog[j].call.voice
         /\ cmdLog[i].call.params = cmdLog[j].call.params
         /\ cmdLog[i].call.outputPath = cmdLog[j].call.outputPath)
        => /\ cmdLog[i].cmd.Args = cmdLog[j].cmd.Args
           /\ cmdLog[i].call.installed = cmdLog[j].call.installed
                  => cmdLog[i].line = cmdLog[j].line
           /\ cmdLog[i].cmd.Process = Nil

C19_Witness ==
    /\ Len(cmdLog) = 2
    /\ cmdLog[1].call.dryRun # cmdLog[2].call.dryRun
    /\ cmdLog[1].call.installed # cmdLog[2].call.installed
    /\ cmdLog[1].cacheReady # cmdLog[2].cacheReady
    /\ cmdLog[1].filesThere # cmdLog[2].filesThere
    /\ cmdLog[1].call.params # Nil /\ cmdLog[1].call.params.Speaker = 1
    /\ cmdLog[1].cmd.Args = cmdLog[2].cmd.Args

\* ------------------------------------------------------------------------
\* PostProcessAgent.Process
\* ------------------------------------------------------------------------
FormatMP3 == <<"m", "p", "3">>
FormatWAV == <<"w", "a", "v">>

\* PostProcessAgent.getDefaultParams
getDefaultPostParams ==
    [Format |-> FormatMP3, SampleRate |-> 48000, Bitrate |-> 192, LoudnessLUFS |-> -1600]

\* PostProcessAgent.validateParams, loudness in hundredths of a LUFS
validatePostParams(params) ==
    IF params.Format # FormatWAV /\ params.Format # FormatMP3 THEN "unsupported format"
    ELSE IF params.SampleRate < 8000 \/ params.SampleRate > 192000
    THEN "sample rate must be between 8000 and 192000 Hz"
    ELSE IF params.Format = FormatMP3 /\ (params.Bitrate < 64 \/ params.Bitrate > 320)
    THEN "MP3 bitrate must be between 64 and 320 kbps"
    ELSE IF FNotEqual(params.LoudnessLUFS, 0)
            /\ (FLess(params.LoudnessLUFS, -3000) \/ FGreater(params.LoudnessLUFS, -600))
    THEN "loudness must be between -30 and -6 LUFS"
    ELSE NoErr

\* the --out path of a run
OutputFile == <<"out", <<"o">>, ".mp3">>

\* the bytes ffmpeg encodes from the raw audio
Encoded(raw) == raw \o <<2>>

PostRet(fs, result, err, ran) == [files |-> fs, result |-> result, err |-> err, ran |-> ran]

\* what the ffmpeg process leaves at outputPath: the encoded file, an empty
\* file, or nothing
FFmpegOutputs == {"file", "empty", "none"}
FFmpegWrites(env, fs, inputPath, outputPath) ==
    IF env.ffOut = "file" THEN WriteF(fs, outputPath, Encoded(fs[inputPath]))
    ELSE IF env.ffOut = "empty" THEN WriteF(fs, outputPath, <<>>)
    ELSE fs

\* Process checking the input file in dry-run mode too
ProcessDryRunNeedsInput(dryRun, inputPath, outputPath, params0, fs, env) ==
    LET params == IF params0 = Nil THEN getDefaultPostParams ELSE params0
        result(size) == [OutputPath |-> outputPath, Format |-> params.Format,
                         SampleRate |-> params.SampleRate, Channels |-> 1,
                         FileSize |-> size]
    IN  IF validatePostParams(params) # NoErr
        THEN PostRet(fs, Nil, "invalid parameters", FALSE)
        ELSE IF inputPath \notin DOMAIN fs
        THEN PostRet(fs, Nil, "input file not found", FALSE)
        ELSE IF dryRun THEN PostRet(fs, result(0), NoErr, FALSE)
        ELSE IF env.ffmpeg # "ok" THEN PostRet(fs, Nil, "ffmpeg processing failed", TRUE)
        ELSE LET fs1 == FFmpegWrites(env, fs, inputPath, outputPath)
             IN  IF outputPath \notin DOMAIN fs1
                 THEN PostRet(fs1, Nil, "failed to get output file info", TRUE)
                 ELSE PostRet(fs1, result(Len(fs1[outputPath])), NoErr, TRUE)

\* PostProcessAgent.Process.  env.ffmpeg is how the ffmpeg process ends and
\* env.ffOut what it left at outputPath; ran tells whether the process was
\* started.
Process(dryRun, inputPath, outputPath, params0, fs, env) ==
    LET params == IF params0 = Nil THEN getDefaultPostParams ELSE params0
        result(size) == [OutputPath |-> outputPath, Format |-> params.Format,
                         SampleRate |-> params.SampleRate, Channels |-> 1,
                         FileSize |-> size]
    IN  IF validatePostParams(params) # NoErr
        THEN PostRet(fs, Nil, "invalid parameters", FALSE)
        ELSE IF ~dryRun /\ inputPath \notin DOMAIN fs
        THEN PostRet(fs, Nil, "input file not found", FALSE)
        ELSE IF dryRun THEN PostRet(fs, result(0), NoErr, FALSE)
        ELSE IF env.ffmpeg # "ok" THEN PostRet(fs, Nil, "ffmpeg processing failed", TRUE)
        ELSE LET fs1 == FFmpegWrites(env, fs, inputPath, outputPath)
             IN  IF outputPath \notin DOMAIN fs1
                 THEN PostRet(fs1, Nil, "failed to get output file info", TRUE)
                 ELSE PostRet(fs1, result(Len(fs1[outputPath])), NoErr, TRUE)

\* ------------------------------------------------------------------------
\* Process calls with parameters around the bounds (SpecPost)
\* ------------------------------------------------------------------------
\* sample rate and bitrate one below, at and one above their limits; loudness
\* -30.01, -30, -6, -5.99, 0 and NaN; a format that is neither wav nor mp3
BoundaryPostParamSets ==
    [Format : {FormatMP3, FormatWAV, <<"o", "g", "g">>},
     SampleRate : {7999, 8000, 192000, 192001},
     Bitrate : {63, 64, 320, 321},
     LoudnessLUFS : {0 - 3001, 0 - 3000, 0 - 600, 0 - 599, 0, NaN}]
PostEnvs == [ffmpeg : {"ok", "fail"}, ffOut : FFmpegOutputs]
PostCalls == [dryRun : BOOLEAN, params : BoundaryPostParamSets, env : PostEnvs]

\* one call of Process on the raw audio at TmpOut; the second call of the log
\* repeats the first
DoProcess(c) ==
    /\ Len(postLog) < MaxPostCalls
    /\ postLog # <<>> => c = postLog[1].call
    /\ \E r \in {Process(c.dryRun, TmpOut, OutputFile, c.params, files, c.env)} :
           /\ postLog' = Append(postLog, [call |-> c, at |-> now,
                                           inputThere |-> TmpOut \in DOMAIN files,
                                           out |-> IF OutputFile \in DOMAIN r.files
                                                   THEN Len(r.files[OutputFile]) ELSE 0 - 1,
                                           ret |-> [result |-> r.result, err |-> r.err,
                                                    ran |-> r.ran]])
           /\ files' = r.files
    /\ UNCHANGED <<now, indexFile, index, last, rt, evicted, keyLog, synthLog, run, cmdLog, procs,
                   voiceAgent, piperProc>>

NextPost ==
    \/ \E c \in PostCalls : DoProcess(c)
    \/ CallerWrite(TmpOut, <<1>>)

SpecPost == Init /\ [][NextPost]_vars

\* the bounds of PostProcessParams as the data model states them
PostParamsInBounds(p) ==
    /\ p.Format \in {FormatWAV, FormatMP3}
    /\ p.SampleRate >= 8000 /\ p.SampleRate <= 192000
    /\ p.Format = FormatMP3 => (p.Bitrate >= 64 /\ p.Bitrate <= 320)
    /\ p.LoudnessLUFS # NaN /\ p.LoudnessLUFS >= 0 - 3000 /\ p.LoudnessLUFS <= 0 - 600

\* C16: PostProcessAgent.validateParams accepts exactly the parameter sets
\* with format wav or mp3, sample rate in [8000, 192000], bitrate in [64, 320]
\* for mp3 (any bitrate for wav) and loudness in [-30, -6]; Process rejects
\* every other one before it starts ffmpeg.
C16_ValidatePostParamsIffInBounds ==
    \A i \in DOMAIN postLog :
        LET p == postLog[i].call.params
            r == postLog[i].ret
        IN  /\ (validatePostParams(p) = NoErr) <=> PostParamsInBounds(p)
            /\ ~PostParamsInBounds(p) =>
                   (r.result = Nil /\ r.err = "invalid parameters" /\ ~r.ran)

\* C26: whenever ffmpeg exits successfully but the output file is missing or
\* has size zero, Process (outside dry-run) returns an error and no result.
C26_EmptyOutputIsError ==
    \A i \in DOMAIN postLog :
        LET c == postLog[i].call
            r == postLog[i].ret
        IN  (~c.dryRun /\ r.ran /\ c.env.ffmpeg = "ok" /\ postLog[i].out <= 0) =>
                (r.err # NoErr /\ r.result = Nil)

\* ------------------------------------------------------------------------
\* Dry-run calls of Synthesize and Process (SpecDryRun)
\* ------------------------------------------------------------------------
\* engines that all work, and those with a missing model file or a failing
\* Piper
EnginesWork == [modelExists |-> TRUE, piper |-> "ok", macAvail |-> TRUE,
                say |-> "ok", outFile |-> TRUE, outSize |-> 1]
DryRunEnvs == {EnginesWork, [EnginesWork EXCEPT !.modelExists = FALSE],
               [EnginesWork EXCEPT !.piper = "fail"]}
DryRunSynthCalls == {c \in SynthCalls : c.env \in DryRunEnvs}
FFmpegWorks == [ffmpeg |-> "ok", ffOut |-> "file"]
DryRunPostCalls ==
    [dryRun : BOOLEAN,
     params : {Nil, [getDefaultPostParams EXCEPT !.Format = FormatWAV],
               [getDefaultPostParams EXCEPT !.SampleRate = 7999]},
     env : {FFmpegWorks, [FFmpegWorks EXCEPT !.ffmpeg = "fail"]}]

NextDryRun ==
    \/ \E c \in DryRunSynthCalls : DoSynthesize(c)
    \/ \E c \in DryRunPostCalls : DoProcess(c)
    \/ CallerWrite(TmpOut, <<1>>)

SpecDryRun == Init /\ [][NextDryRun]_vars

\* the result of the same Synthesize call made for real with working engines
RealSynthResult(c, nonce) ==
    Synthesize(FALSE, c.normalized, c.voice, c.params, EnginesWork, nonce).result
\* the result of the same Process call made for real with ffmpeg working
RealPostResult(c) ==
    Process(FALSE, TmpOut, OutputFile, c.params, WriteF(files, TmpOut, <<1>>),
            FFmpegWorks).result

\* C25: in dry-run mode, for valid parameters and every voice, Synthesize
\* starts no engine and Process does not start ffmpeg, with or without the
\* model file and the input file; each returns success, and its result is the
\* result of a real run but for the file size: the output path (non-empty),
\* the sample rate, one channel and, for Process, the format.
C25_DryRunStartsNothing ==
    /\ \A i \in DOMAIN synthLog :
           LET c == synthLog[i].call
               r == synthLog[i].ret
               params == IF c.params = Nil THEN getDefaultParams ELSE c.params
               real == RealSynthResult(c, i - 1)
           IN  (c.dryRun /\ validateParams(params) = NoErr) =>
                   /\ r.attempts = <<>>
                   /\ r.err = NoSynthErr
                   /\ r.result # Nil
                   /\ r.result.OutputPath # Nil /\ r.result.Channels = 1
                   /\ r.result.SampleRate = c.voice.SampleRate
                   /\ real # Nil
                   /\ [r.result EXCEPT !.FileSize = real.FileSize] = real
    /\ \A i \in DOMAIN postLog :
           LET c == postLog[i].call
               r == postLog[i].ret
               params == IF c.params = Nil THEN getDefaultPostParams ELSE c.params
               real == RealPostResult(c)
           IN  (c.dryRun /\ validatePostParams(params) = NoErr) =>
                   /\ ~r.ran
                   /\ r.err = NoErr
                   /\ r.result # Nil
                   /\ r.result.OutputPath = OutputFile /\ r.result.Channels = 1
                   /\ r.result.SampleRate = params.SampleRate
                   /\ r.result.Format = params.Format
                   /\ real # Nil
                   /\ [r.result EXCEPT !.FileSize = real.FileSize] = real

\* a dry-run Synthesize for a model voice whose model file is missing, and a
\* dry-run Process whose input file does not exist, both with valid parameters
C25_Witness ==
    /\ \E i \in DOMAIN synthLog :
           /\ synthLog[i].call.dryRun /\ ~synthLog[i].call.env.modelExists
           /\ synthLog[i].call.voice = ModelVoice1
           /\ synthLog[i].ret.err = NoSynthErr
    /\ \E i \in DOMAIN postLog :
           /\ postLog[i].call.dryRun /\ ~postLog[i].inputThere
           /\ postLog[i].ret.err = NoErr

\* ------------------------------------------------------------------------
\* executeSynthesisPipeline, from the synthesis step on
\* ------------------------------------------------------------------------
\* copyFile of package main: the cached artifact is copied to the output path
mainCopyFile(fs, src, dst) == WriteF(fs, dst, fs[src])

\* os.RemoveAll(tempDir)
RemoveAll(fs, dir) == [q \in {x \in DOMAIN fs : x[1] # dir} |-> fs[q]]

\* the state a run leaves and what it did: the engine processes it ran, how
\* it ended, and whether the cache held a valid entry for its key beforehand
\* scratch: the scratch directory was created (os.MkdirTemp, removed again on
\* return); encoder: the ffmpeg process was started; putErr: what
\* cacheAgent.Put returned
NotCalled == "not called"
\* the scratch directory removed at the end of a successful run only
RunRetCleanupAtEnd(w, in, attempts, outcome, err, validBefore) ==
    [pc |-> "done", in |-> in, attempts |-> attempts, outcome |-> outcome, err |-> err,
     validBefore |-> validBefore, scratch |-> TRUE, encoder |-> FALSE, putErr |-> NotCalled,
     w |-> [w EXCEPT !.files = IF err = NoErr THEN RemoveAll(w.files, tempDir) ELSE w.files,
                     !.index = Nil]]

\* every return of executeSynthesisPipeline after os.MkdirTemp: the deferred
\* os.RemoveAll(tempDir) runs, and the process ends with its CacheAgent
RunRet(w, in, attempts, outcome, err, validBefore) ==
    [pc |-> "done", in |-> in, attempts |-> attempts, outcome |-> outcome, err |-> err,
     validBefore |-> validBefore, scratch |-> TRUE, encoder |-> FALSE, putErr |-> NotCalled,
     w |-> [w EXCEPT !.files = RemoveAll(w.files, tempDir), !.index = Nil]]

\* steps 6 and 7 with a failed Put returned as the error of the run
encodeAndCachePutFatal(w, in, sr, postParams, cacheKey, env, t, validBefore) ==
    LET pr == Process(FALSE, sr.result.OutputPath, in.outputFile, postParams, w.files, env)
        w3 == [w EXCEPT !.files = pr.files]
    IN  IF pr.err # NoErr
        THEN [RunRet(w3, in, sr.attempts, "failed", "post-processing failed",
                     validBefore) EXCEPT !.encoder = pr.ran]
        ELSE
        LET put == Put(w3, cacheKey, pr.result.OutputPath, "m1", t)
        IN  [RunRet(put.w, in, sr.attempts,
                    IF put.err = NoErr THEN "cached" ELSE "failed",
                    IF put.err = NoErr THEN NoErr ELSE "failed to cache result",
                    validBefore) EXCEPT !.encoder = pr.ran, !.putErr = put.err]

\* steps 6 and 7 with the raw audio cached before it is encoded
encodeAndCacheRawFirst(w, in, sr, postParams, cacheKey, env, t, validBefore) ==
    LET put == Put(w, cacheKey, sr.result.OutputPath, "m1", t)
        pr == Process(FALSE, sr.result.OutputPath, in.outputFile, postParams,
                      put.w.files, env)
        w3 == [put.w EXCEPT !.files = pr.files]
    IN  IF pr.err # NoErr
        THEN [RunRet(w3, in, sr.attempts, "failed", "post-processing failed",
                     validBefore) EXCEPT !.encoder = pr.ran, !.putErr = put.err]
        ELSE [RunRet(w3, in, sr.attempts,
                     IF put.err = NoErr THEN "cached" ELSE "not cached",
                     NoErr, validBefore) EXCEPT !.encoder = pr.ran, !.putErr = put.err]

\* executeSynthesisPipeline, steps 6 and 7: post-processing, then caching the
\* result (a failure of Put is only reported)
encodeAndCache(w, in, sr, postParams, cacheKey, env, t, validBefore) ==
    LET pr == Process(FALSE, sr.result.OutputPath, in.outputFile, postParams, w.files, env)
        w3 == [w EXCEPT !.files = pr.files]
    IN  IF pr.err # NoErr
        THEN [RunRet(w3, in, sr.attempts, "failed", "post-processing failed",
                     validBefore) EXCEPT !.encoder = pr.ran]
        ELSE
        LET put == Put(w3, cacheKey, pr.result.OutputPath, "m1", t)
        IN  [RunRet(put.w, in, sr.attempts,
                    IF put.err = NoErr THEN "cached" ELSE "not cached",
                    NoErr, validBefore) EXCEPT !.encoder = pr.ran, !.putErr = put.err]

\* what the engines of a failed Synthesize left in the scratch directory: the
\* output of an engine whose file Synthesize could not stat is absent; the
\* built-in engine leaves <outputPath>.aiff when say fails after creating it,
\* Piper a partial output file when it exits with an error
EngineLeftovers(fs, sr, env) ==
    LET out == SynthOutputPath(0)
        aiff == <<out[1], out[2], ".wav.aiff">>
        fs1 == IF sr.attempts # <<>> /\ sr.attempts[1] = "piper" /\ env.piper = "fail"
               THEN WriteF(fs, out, <<>>) ELSE fs
    IN  IF sr.attempts # <<>> /\ sr.attempts[Len(sr.attempts)] = "macos" /\ env.say = "fail"
        THEN WriteF(fs1, aiff, <<1>>) ELSE fs1

executeSynthesisPipeline(in, env, w0, t) ==
    LET params == [Speed |-> in.speed, Noise |-> in.noise, NoiseW |-> in.noisew, Speaker |-> 0]
        postParams == [Format |-> in.format, SampleRate |-> in.sampleRate,
                       Bitrate |-> in.bitrate, LoudnessLUFS |-> -1600]
        cacheKey == GenerateKey(in.content, in.voice, params, postParams)
        validBefore == Get(Initialize([w0 EXCEPT !.index = Nil]).w, cacheKey, t).entry # Nil
        \* Step 4: synthesis
        sr == Synthesize(FALSE, in.normalized, in.voice, params, env, 0)
    IN  IF sr.err # NoSynthErr
        THEN RunRet([w0 EXCEPT !.files = EngineLeftovers(w0.files, sr, env)],
                    in, sr.attempts, "failed", "synthesis failed", validBefore)
        ELSE
        LET \* the raw audio the engine left in the scratch directory
            w1 == [w0 EXCEPT !.files = WriteF(w0.files, sr.result.OutputPath,
                                              FileOfSize(sr.result.FileSize)),
                             !.index = Nil, !.io = env.cacheIO]
            \* Step 5: check cache
            init == Initialize(w1)
            g == Get(init.w, cacheKey, t)
        IN  IF init.err # NoErr
            THEN RunRet(init.w, in, sr.attempts, "failed", "cache initialization failed",
                        validBefore)
            ELSE IF g.err = NoErr /\ g.entry # Nil
            THEN IF env.copyOut # "ok"
                 THEN RunRet(g.w, in, sr.attempts, "failed", "failed to copy cached file",
                             validBefore)
                 ELSE RunRet([g.w EXCEPT !.files = mainCopyFile(g.w.files, g.entry.FilePath,
                                                                in.outputFile)],
                             in, sr.attempts, "cache hit", NoErr, validBefore)
            ELSE encodeAndCache(g.w, in, sr, postParams, cacheKey, env, t, validBefore)

\* validateOutputFile: the extension must be .wav or .mp3
validateOutputFile(path) ==
    IF path = Nil THEN "output file is required"
    ELSE IF path[3] # ".wav" /\ path[3] # ".mp3" THEN "unsupported output format"
    ELSE NoErr

\* the format flag after validateOutputFile: mp3 and wav follow the extension
FormatAfterValidate(format, path) ==
    IF format = FormatMP3 /\ path[3] = ".wav" THEN FormatWAV
    ELSE IF format = FormatWAV /\ path[3] = ".mp3" THEN FormatMP3
    ELSE format

\* validateSynthParams: speed, noise, noisew and bitrate; the sample rate is
\* not looked at
validateSynthParams(in) ==
    IF FLess(in.speed, 5000) \/ FGreater(in.speed, 20000)
    THEN "speed must be between 0.5 and 2.0"
    ELSE IF FLess(in.noise, 0) \/ FGreater(in.noise, 10000)
    THEN "noise must be between 0.0 and 1.0"
    ELSE IF FLess(in.noisew, 0) \/ FGreater(in.noisew, 10000)
    THEN "noisew must be between 0.0 and 1.0"
    ELSE IF in.bitrate < 64 \/ in.bitrate > 320
    THEN "bitrate must be between 64 and 320 kbps"
    ELSE NoErr

\* a run that runSynth ends before executeSynthesisPipeline
Rejected(w, in, err) ==
    [pc |-> "done", in |-> in, attempts |-> <<>>, outcome |-> "rejected", err |-> err,
     validBefore |-> FALSE, scratch |-> FALSE, encoder |-> FALSE, putErr |-> NotCalled,
     w |-> w]

\* runSynth: the validators, then the pipeline
runSynth(in, env, w0, t) ==
    IF validateOutputFile(in.outputFile) # NoErr
    THEN Rejected(w0, in, "Output file error")
    ELSE LET in1 == [in EXCEPT !.format = FormatAfterValidate(in.format, in.outputFile)]
         IN  IF validateSynthParams(in1) # NoErr
             THEN Rejected(w0, in1, "Parameter error")
             ELSE executeSynthesisPipeline(in1, env, w0, t)

\* ------------------------------------------------------------------------
\* Pipeline runs (SpecPipeline)
\* ------------------------------------------------------------------------
PipelineInputs ==
    [content : [Paragraphs : { << <<"h", "i">> >> }, Language : {"en-US"},
                WordCount : {1}, Source : {"a.txt"}],
     normalized : [Sentences : { << <<"h", "i">> >> }, Language : {"en-US"}],
     voice : {ModelVoice1, BuiltInVoice},
     speed : {10300, 4000}, noise : {6670}, noisew : {8000},
     format : {FormatMP3}, sampleRate : {48000, 1000}, bitrate : {192},
     outputFile : {OutputFile}]
\* the engines and the encoder during one run: everything works, or one of
\* them goes wrong (Piper failing with and without a built-in engine to fall
\* back on, the engine leaving no file, ffmpeg failing, ffmpeg leaving no
\* file, a cache directory that cannot be written, a cached file that cannot
\* be copied to the output path).  cacheIO is the io of the cache directory,
\* copyOut how copyFile of package main ends.
AllWorks ==
    [modelExists |-> TRUE, piper |-> "ok", macAvail |-> FALSE, say |-> "ok",
     outFile |-> TRUE, outSize |-> 1, ffmpeg |-> "ok", ffOut |-> "file", cacheIO |-> "ok",
     copyOut |-> "ok"]
PipelineEnvs ==
    {AllWorks,
     [AllWorks EXCEPT !.piper = "fail", !.macAvail = TRUE],
     [AllWorks EXCEPT !.piper = "fail"],
     [AllWorks EXCEPT !.outFile = FALSE],
     [AllWorks EXCEPT !.ffmpeg = "fail"],
     [AllWorks EXCEPT !.ffOut = "none"],
     [AllWorks EXCEPT !.cacheIO = "readonly"],
     [AllWorks EXCEPT !.copyOut = "fail"]}

\* the entries of a persisted index (none when it is absent or undecodable)
PersistedEntries(content) == IF Decodable(content) THEN content.Entries ELSE <<>>
\* the persisted index after holds an entry the one before did not hold
AddsEntry(before, after) ==
    \E k \in DOMAIN PersistedEntries(after) :
        \/ k \notin DOMAIN PersistedEntries(before)
        \/ PersistedEntries(after)[k] # PersistedEntries(before)[k]

\* one run of the command, in a process of its own
DoRun(in, env) ==
    \E r \in {runSynth(in, env, World, now)} :
        /\ run' = [pc |-> r.pc, in |-> r.in, attempts |-> r.attempts,
                   outcome |-> r.outcome, err |-> r.err, validBefore |-> r.validBefore,
                   scratch |-> r.scratch, encoder |-> r.encoder,
                   changed |-> (r.w.files # files \/ r.w.indexFile # indexFile),
                   putErr |-> r.putErr,
                   newEntry |-> AddsEntry(indexFile, r.w.indexFile),
                   cachedBefore |-> DOMAIN PersistedEntries(indexFile) # {},
                   output |-> IF r.in.outputFile \in DOMAIN r.w.files
                              THEN r.w.files[r.in.outputFile] ELSE Nil,
                   scratchLeft |-> {q \in DOMAIN r.w.files : q[1] = tempDir},
                   promoted |-> \E k \in DOMAIN PersistedEntries(r.w.indexFile) :
                                   LET e == PersistedEntries(r.w.indexFile)[k]
                                   IN  /\ e.CreatedAt = now
                                       /\ e.FilePath \in DOMAIN r.w.files
                                       /\ e.FilePath[1] = cacheDir
                                       /\ r.in.outputFile \in DOMAIN r.w.files
                                       /\ r.w.files[e.FilePath] = r.w.files[r.in.outputFile]]
        /\ files' = r.w.files
        /\ indexFile' = r.w.indexFile
        /\ index' = r.w.index
        /\ UNCHANGED <<now, last, rt, evicted, keyLog, synthLog, cmdLog, postLog, procs,
                   voiceAgent, piperProc>>

NextPipeline ==
    \/ \E in \in PipelineInputs, env \in PipelineEnvs : DoRun(in, env)
    \/ Tick
    \/ \E path \in {x \in DOMAIN files : x[1] = cacheDir} : ExternalDelete(path)

SpecPipeline == Init /\ [][NextPipeline]_vars

\* C1: when the cache holds a valid entry for the request's key, the run
\* invokes no synthesis engine, neither Piper nor the built-in one.
C1_NoSynthesisOnCacheHit ==
    (run.pc = "done" /\ run.validBefore) => run.attempts = <<>>

\* the request's SynthParams and PostProcessParams are within their bounds
RequestInBounds(in) ==
    /\ SynthParamsInBounds([Speed |-> in.speed, Noise |-> in.noise, NoiseW |-> in.noisew,
                            Speaker |-> 0])
    /\ PostParamsInBounds([Format |-> in.format, SampleRate |-> in.sampleRate,
                           Bitrate |-> in.bitrate, LoudnessLUFS |-> 0 - 1600])

\* C17: a run whose parameters violate a bound fails before it starts any
\* process (Piper, the built-in engine, ffmpeg) and before it creates or
\* changes any file or directory (scratch directory, cache directory, index,
\* output file).
C17_ValidationBeforeSideEffects ==
    (run.pc = "done" /\ ~RequestInBounds(run.in)) =>
        /\ run.outcome \in {"rejected", "failed"}
        /\ run.attempts = <<>>
        /\ ~run.encoder
        /\ ~run.scratch
        /\ ~run.changed

\* C27: when synthesis and encoding have succeeded and Put returns an error,
\* the run returns success (synthesized but not cached) and the encoded
\* artifact is at the output path.
C27_PutFailureDegrades ==
    (run.pc = "done" /\ run.putErr \notin {NotCalled, NoErr}) =>
        /\ run.err = NoErr
        /\ run.outcome = "not cached"
        /\ run.output = Encoded(<<1>>)

\* a run whose Put failed
C27_Witness == run.pc = "done" /\ run.putErr \notin {NotCalled, NoErr}

\* C28: from the synthesis step on, a run fails only with a synthesis error
\* (engines exhausted, invalid synthesis parameters) or a post-processing
\* error (invalid encoding parameters, encoding failure); no failure of the
\* cache makes it fail.
C28_CacheFailureNeverFatal ==
    (run.pc = "done" /\ run.outcome = "failed") =>
        run.err \in {"synthesis failed", "post-processing failed"}

\* C29: Put is called only in a run that succeeds, and after a run that ends
\* in an error the persisted index holds no entry it did not hold before.
C29_FailedRunAddsNoEntry ==
    (run.pc = "done" /\ run.err # NoErr) =>
        /\ run.putErr = NotCalled
        /\ ~run.newEntry

\* a run that fails in post-processing, after synthesis and the cache lookup,
\* on a cache that holds entries
C29_Witness ==
    /\ run.pc = "done" /\ run.err = "post-processing failed"
    /\ run.attempts # <<>> /\ run.cachedBefore

\* ------------------------------------------------------------------------
\* The output file of a successful Synthesize
\* ------------------------------------------------------------------------
\* C40: outside dry-run mode, when Synthesize returns success the file at
\* result.OutputPath exists inside the scratch directory and result.FileSize
\* is its size; when the built-in engine reports success and left no output
\* file, Synthesize returns an error.
C40_SuccessHasOutputFile ==
    \A i \in DOMAIN synthLog :
        LET c == synthLog[i].call
            r == synthLog[i].ret
        IN  /\ (~c.dryRun /\ r.err = NoSynthErr) =>
                   /\ r.result.OutputPath[1] = tempDir
                   /\ r.result.OutputPath \in DOMAIN files
                   /\ r.result.FileSize = Len(files[r.result.OutputPath])
            /\ (/\ ~c.dryRun /\ r.attempts # <<>>
                /\ r.attempts[Len(r.attempts)] = "macos"
                /\ c.env.say = "ok" /\ ~c.env.outFile) => r.err # NoSynthErr

\* the built-in engine succeeded after Piper failed and left a file of one byte
C40_Witness ==
    \E i \in DOMAIN synthLog :
        /\ ~synthLog[i].call.dryRun
        /\ synthLog[i].ret.err = NoSynthErr
        /\ synthLog[i].ret.attempts = <<"piper", "macos">>
        /\ synthLog[i].ret.result.FileSize = 1
        /\ synthLog[i].ret.result.OutputPath \in DOMAIN files

\* ------------------------------------------------------------------------
\* The scratch directory of a run
\* ------------------------------------------------------------------------
\* the ways a run that created its scratch directory returns
ExitPaths == {"cached", "not cached", "cache hit", "failed"}

\* C31: once a run has created its scratch directory, no file of the
\* directory exists any more when the run returns, however it returns, and
\* the artifact Put copied into the cache still exists.
C31_ScratchDestroyed ==
    (run.pc = "done" /\ run.scratch) =>
        /\ run.outcome \in ExitPaths
        /\ run.scratchLeft = {}
        /\ run.outcome = "cached" => run.promoted

\* a run that cached its artifact and returned success
C31_Witness ==
    /\ run.pc = "done" /\ run.scratch
    /\ run.outcome = "cached" /\ run.promoted
    /\ run.err = NoErr /\ run.encoder

\* ------------------------------------------------------------------------
\* What a request feeds to the engines
\* ------------------------------------------------------------------------
\* NormalizeAgent.Normalize on paragraphs of one word of letters: nothing to
\* clean, expand or split, each paragraph is one sentence and
\* splitIntoSentences gives it its full stop
Normalize(content) ==
    [Sentences |-> [i \in DOMAIN content.Paragraphs |-> content.Paragraphs[i] \o <<".">>],
     Language |-> content.Language]

\* the requests executeSynthesisPipeline can make: Speaker 0, -16 LUFS
PipelineRequests ==
    {in \in AllKeyInputs : in.synth.Speaker = 0 /\ in.post.LoudnessLUFS = -1600}

\* what the pipeline hands to Synthesize and Process for a request
EngineInput(in) ==
    [normalized |-> Normalize(in.content), voice |-> in.voice,
     synth |-> in.synth, post |-> in.post]

\* C39: two requests of the pipeline with the same cache key feed the same
\* sentences, language, voice and synthesis and encoding parameters to the
\* engines.
C39_EqualKeysEqualInput ==
    \A i \in DOMAIN keyLog : \A in \in PipelineRequests :
        KeyOf(in) = keyLog[i].key => EngineInput(in) = EngineInput(keyLog[i].in)

\* ------------------------------------------------------------------------
\* executePiper: the child process, its stdin pipe and the writer goroutine
\* (SpecPiper)
\* ------------------------------------------------------------------------
\* where executePiper goes from a position, given whether the call made
\* there failed; returning without cmd.Wait once the writer is started
executePiperNoWait(pc, failed) ==
    IF pc = "pipe"
    THEN IF failed THEN [pc |-> "returned", ret |-> "failed to create stdin pipe"]
         ELSE [pc |-> "start", ret |-> NoErr]
    ELSE IF pc = "start"
    THEN IF failed THEN [pc |-> "returned", ret |-> "failed to start piper"]
         ELSE [pc |-> "spawn", ret |-> NoErr]
    ELSE [pc |-> "returned", ret |-> NoErr]

\* where executePiper goes from a position, given whether the call made
\* there failed: cmd.StdinPipe, cmd.Start, go func, cmd.Wait
executePiper(pc, failed) ==
    IF pc = "pipe"
    THEN IF failed THEN [pc |-> "returned", ret |-> "failed to create stdin pipe"]
         ELSE [pc |-> "start", ret |-> NoErr]
    ELSE IF pc = "start"
    THEN IF failed THEN [pc |-> "returned", ret |-> "failed to start piper"]
         ELSE [pc |-> "spawn", ret |-> NoErr]
    ELSE IF pc = "spawn" THEN [pc |-> "wait", ret |-> NoErr]
    ELSE IF failed THEN [pc |-> "returned", ret |-> "piper execution failed"]
         ELSE [pc |-> "returned", ret |-> NoErr]

\* the position and the return value after a step
Goto(step) == [piperProc EXCEPT !.pc = step.pc, !.ret = step.ret]

PiperVars == <<now, files, indexFile, index, last, rt, evicted, keyLog, synthLog, run,
               cmdLog, postLog, procs, voiceAgent>>

\* Synthesize calls executePiper(cmd, text) with a text of n bytes
PiperCall(n) ==
    /\ piperProc.pc = "idle"
    /\ piperProc' = [IdlePiper EXCEPT !.pc = "pipe", !.left = n]
    /\ UNCHANGED PiperVars

\* cmd.StdinPipe: a pipe is created, or os.Pipe fails and nothing is
PiperStdinPipe(failed) ==
    /\ piperProc.pc = "pipe"
    /\ piperProc' = [Goto(executePiper("pipe", failed)) EXCEPT
                        !.stdin = IF failed THEN "none" ELSE "open"]
    /\ UNCHANGED PiperVars

\* cmd.Start: the child runs, or Start fails and closes both ends of the pipe
PiperStart(failed) ==
    /\ piperProc.pc = "start"
    /\ piperProc' = [Goto(executePiper("start", failed)) EXCEPT
                        !.stdin = IF failed THEN "closed" ELSE "open",
                        !.child = IF failed THEN "none" ELSE "running"]
    /\ UNCHANGED PiperVars

\* go func() { defer stdin.Close(); io.WriteString(stdin, text) }()
PiperSpawnWriter ==
    /\ piperProc.pc = "spawn"
    /\ piperProc' = [Goto(executePiper("spawn", FALSE)) EXCEPT !.writer = "running"]
    /\ UNCHANGED PiperVars

\* the writer can take its next step: it has nothing left to write, or the
\* write fails at once (pipe closed, or no reader left), or the pipe has room
WriterCanStep ==
    \/ piperProc.left = 0
    \/ piperProc.stdin = "closed"
    \/ piperProc.child # "running"
    \/ piperProc.buf < PipeCap

\* io.WriteString in the goroutine: one byte into the pipe, or the write
\* fails (closed pipe, EPIPE) and WriteString returns
WriterWrite ==
    /\ piperProc.writer = "running" /\ piperProc.left > 0
    /\ WriterCanStep
    /\ piperProc' = IF piperProc.stdin = "closed" \/ piperProc.child # "running"
                    THEN [piperProc EXCEPT !.left = 0]
                    ELSE [piperProc EXCEPT !.left = @ - 1, !.buf = @ + 1]
    /\ UNCHANGED PiperVars

\* the deferred stdin.Close() of the goroutine
WriterClose ==
    /\ piperProc.writer = "running" /\ piperProc.left = 0
    /\ piperProc' = [piperProc EXCEPT !.writer = "done", !.stdin = "closed"]
    /\ UNCHANGED PiperVars

\* Piper reads a byte of its standard input
ChildRead ==
    /\ piperProc.child = "running" /\ piperProc.buf > 0
    /\ piperProc' = [piperProc EXCEPT !.buf = @ - 1]
    /\ UNCHANGED PiperVars

\* Piper exits, with status 0 or not, at the end of its input or before
ChildExit(code) ==
    /\ piperProc.child = "running"
    /\ piperProc' = [piperProc EXCEPT !.child = IF code = 0 THEN "exited 0" ELSE "exited 1"]
    /\ UNCHANGED PiperVars

\* cmd.Wait returns once the child has exited: the child is reaped and the
\* parent's end of the stdin pipe is closed
PiperWait ==
    /\ piperProc.pc = "wait"
    /\ piperProc.child \in {"exited 0", "exited 1"}
    /\ piperProc' = [Goto(executePiper("wait", piperProc.child = "exited 1")) EXCEPT
                        !.child = "reaped", !.stdin = "closed"]
    /\ UNCHANGED PiperVars

\* the goroutine has ended and Synthesize goes on: the next call
PiperDone ==
    /\ piperProc.pc = "returned" /\ piperProc.writer \in {"none", "done"}
    /\ piperProc' = IdlePiper
    /\ UNCHANGED PiperVars

NextPiper ==
    \/ \E n \in 0..MaxText : PiperCall(n)
    \/ \E failed \in BOOLEAN : PiperStdinPipe(failed)
    \/ \E failed \in BOOLEAN : PiperStart(failed)
    \/ PiperSpawnWriter
    \/ WriterWrite
    \/ WriterClose
    \/ ChildRead
    \/ \E code \in {0, 1} : ChildExit(code)
    \/ PiperWait
    \/ PiperDone

SpecPiper == Init /\ [][NextPiper]_vars

\* C32: whenever executePiper has returned, a child it started has been
\* waited for, and the stdin pipe is closed or the writer goroutine, not
\* blocked, is about to close it.
C32_HandlesReleased ==
    piperProc.pc = "returned" =>
        /\ piperProc.child \in {"none", "reaped"}
        /\ \/ piperProc.stdin \in {"none", "closed"}
           \/ piperProc.writer = "running" /\ WriterCanStep
        /\ piperProc.writer = "running" => WriterCanStep

\* executePiper returned the error of a non-zero exit while the writer still
\* has text to write
C32_Witness ==
    /\ piperProc.pc = "returned"
    /\ piperProc.ret = "piper execution failed"
    /\ piperProc.child = "reaped"
    /\ piperProc.writer = "running" /\ piperProc.left > 0

\* ------------------------------------------------------------------------
\* VoiceCatalogAgent: LoadCatalog and SelectVoice (SpecCatalog)
\* ------------------------------------------------------------------------
UpperCase == <<"A", "B", "C", "E", "G", "I", "K", "M", "N", "R", "S", "T", "U", "Y">>
LowerCase == <<"a", "b", "c", "e", "g", "i", "k", "m", "n", "r", "s", "t", "u", "y">>
\* strings.ToLower
ToLower(str) ==
    [i \in DOMAIN str |->
        IF \E j \in DOMAIN UpperCase : UpperCase[j] = str[i]
        THEN LowerCase[CHOOSE j \in DOMAIN UpperCase : UpperCase[j] = str[i]]
        ELSE str[i]]
\* strings.Contains
ContainsStr(str, sub) ==
    \E i \in 0..(Len(str) - Len(sub)) : SubSeq(str, i + 1, i + Len(sub)) = sub
\* strings.HasPrefix
HasPrefix(str, prefix) ==
    Len(prefix) <= Len(str) /\ SubSeq(str, 1, Len(prefix)) = prefix

EnUS == <<"e", "n", "-", "U", "S">>
ElGR == <<"e", "l", "-", "G", "R">>
\* catalog entries: two English voices and a Greek one free for commercial
\* use, one whose flag allows commercial use under a CC-BY-NC license, one
\* whose flag forbids it, and one without a license name
AmyVoice == [ID |-> "amy", Language |-> EnUS, Gender |-> "female", SampleRate |-> 22050,
             CommercialUseAllowed |-> TRUE, LicenseName |-> <<"M", "I", "T">>]
JoeVoice == [ID |-> "joe", Language |-> EnUS, Gender |-> "male", SampleRate |-> 16000,
             CommercialUseAllowed |-> TRUE, LicenseName |-> <<"C", "C", "0">>]
EllVoice == [ID |-> "ell", Language |-> ElGR, Gender |-> "female", SampleRate |-> 22050,
             CommercialUseAllowed |-> TRUE, LicenseName |-> <<"C", "C", "0">>]
NcVoice == [ID |-> "ncv", Language |-> EnUS, Gender |-> "female", SampleRate |-> 48000,
            CommercialUseAllowed |-> TRUE, LicenseName |-> <<"C", "C", "-", "B", "Y", "-", "N", "C">>]
ResVoice == [ID |-> "res", Language |-> EnUS, Gender |-> "male", SampleRate |-> 48000,
             CommercialUseAllowed |-> FALSE, LicenseName |-> <<"M", "I", "T">>]
BareVoice == [ID |-> "bar", Language |-> EnUS, Gender |-> "male", SampleRate |-> 48000,
              CommercialUseAllowed |-> TRUE, LicenseName |-> <<>>]
CatalogVoices == {AmyVoice, JoeVoice, EllVoice, NcVoice, ResVoice, BareVoice}

\* voices/catalog.json: absent, not JSON, or a list of at most two entries
CatalogFiles ==
    {[kind |-> "missing", voices |-> <<>>], [kind |-> "garbage", voices |-> <<>>]}
    \cup {[kind |-> "json", voices |-> vs] :
            vs \in {<<>>} \cup {<<a>> : a \in CatalogVoices}
                   \cup {<<a, b>> : a \in CatalogVoices, b \in CatalogVoices \ {NcVoice, BareVoice}}}

\* validateVoice checking the required fields only
validateVoiceRequiredFields(voice) ==
    IF voice.ID = "" THEN "voice ID is required"
    ELSE IF voice.Language = <<>> THEN "language is required"
    ELSE IF voice.LicenseName = <<>> THEN "license_name is required"
    ELSE NoErr

\* VoiceCatalogAgent.validateVoice
validateVoice(voice) ==
    IF voice.ID = "" THEN "voice ID is required"
    ELSE IF voice.Language = <<>> THEN "language is required"
    ELSE IF voice.LicenseName = <<>> THEN "license_name is required"
    ELSE IF ~voice.CommercialUseAllowed THEN "voice is not allowed for commercial use"
    ELSE IF \/ ContainsStr(ToLower(voice.LicenseName), <<"n", "o", "n", "-", "c", "o", "m", "m", "e", "r", "c", "i", "a", "l">>)
            \/ ContainsStr(ToLower(voice.LicenseName), <<"n", "c">>)
            \/ ContainsStr(ToLower(voice.LicenseName), <<"b", "y", "-", "n", "c">>)
    THEN "voice has non-commercial license"
    ELSE NoErr

\* VoiceCatalogAgent.LoadCatalog: the catalog the agent holds afterwards and
\* the error
LoadCatalog(catalog, file) ==
    IF file.kind = "missing"
    THEN [catalog |-> catalog, err |-> "failed to open catalog file"]
    ELSE IF file.kind = "garbage"
    THEN [catalog |-> catalog, err |-> "failed to parse catalog JSON"]
    ELSE IF \E i \in DOMAIN file.voices : validateVoice(file.voices[i]) # NoErr
    THEN [catalog |-> catalog, err |-> "invalid voice entry"]
    ELSE [catalog |-> [voices |-> file.voices], err |-> NoErr]

\* VoiceCatalogAgent.normalizeLanguage
normalizeLanguage(lang) ==
    LET l == ToLower(lang)
    IN  IF l \in {<<"e", "n">>, <<"e", "n", "g", "l", "i", "s", "h">>, <<"e", "n", "-", "u", "s">>, <<"e", "n", "_", "u", "s">>} THEN EnUS
        ELSE IF l \in {<<"e", "n", "-", "u", "k">>, <<"e", "n", "_", "u", "k">>, <<"e", "n", "-", "g", "b">>, <<"e", "n", "_", "g", "b">>} THEN <<"e", "n", "-", "U", "K">>
        ELSE IF l \in {<<"e", "l">>, <<"g", "r", "e", "e", "k">>, <<"e", "l", "-", "g", "r">>, <<"e", "l", "_", "g", "r">>} THEN ElGR
        ELSE IF l = <<"a", "u", "t", "o">> THEN EnUS
        ELSE lang

RECURSIVE BestVoice(_, _)
\* the loop over candidates[1:]: a later voice wins with a higher sample rate
BestVoice(best, rest) ==
    IF rest = <<>> THEN best
    ELSE IF Head(rest).SampleRate > best.SampleRate THEN BestVoice(Head(rest), Tail(rest))
    ELSE BestVoice(best, Tail(rest))

\* VoiceCatalogAgent.SelectVoice
SelectVoice(catalog, language, voiceID, gender) ==
    IF catalog = Nil THEN [voice |-> Nil, err |-> "catalog not loaded"]
    ELSE IF voiceID # "auto" /\ voiceID # ""
    THEN IF \E i \in DOMAIN catalog.voices : catalog.voices[i].ID = voiceID
         THEN [voice |-> catalog.voices[CHOOSE i \in DOMAIN catalog.voices :
                                           /\ catalog.voices[i].ID = voiceID
                                           /\ \A j \in 1..(i - 1) :
                                                  catalog.voices[j].ID # voiceID],
               err |-> NoErr]
         ELSE [voice |-> Nil, err |-> "voice ID not found in catalog"]
    ELSE
    LET lang == normalizeLanguage(language)
        InLanguage(v) == HasPrefix(v.Language, lang)
        OfGender(v) == v.Gender = gender
        candidates == SelectSeq(catalog.voices, InLanguage)
        genderCandidates == SelectSeq(candidates, OfGender)
        chosen == IF gender # "auto" /\ gender # "" /\ genderCandidates # <<>>
                  THEN genderCandidates ELSE candidates
    IN  IF candidates = <<>> THEN [voice |-> Nil, err |-> "no voices found for language"]
        ELSE [voice |-> BestVoice(Head(chosen), Tail(chosen)), err |-> NoErr]

CatalogVars == <<now, files, indexFile, index, last, rt, evicted, keyLog, synthLog, run,
                 cmdLog, postLog, procs, piperProc>>

DoNewVoiceCatalogAgent ==
    /\ voiceAgent' = NewVoiceCatalogAgent
    /\ UNCHANGED CatalogVars

DoLoadCatalog(file) ==
    /\ \E r \in {LoadCatalog(voiceAgent.catalog, file)} :
           voiceAgent' = [catalog |-> r.catalog, op |-> "LoadCatalog", file |-> file,
                          selected |-> Nil, err |-> r.err,
                          loaded |-> voiceAgent.loaded \/ r.err = NoErr]
    /\ UNCHANGED CatalogVars

DoSelectVoice(language, voiceID, gender) ==
    /\ \E r \in {SelectVoice(voiceAgent.catalog, language, voiceID, gender)} :
           voiceAgent' = [voiceAgent EXCEPT !.op = "SelectVoice", !.file = Nil,
                                            !.selected = r.voice, !.err = r.err]
    /\ UNCHANGED CatalogVars

\* the --language, --voice and --gender flags
LanguageFlags == {<<"e", "n">>, ElGR, <<"a", "u", "t", "o">>, <<"f", "r">>}
VoiceFlags == {"auto", "amy", "res", "ncv"}
GenderFlags == {"auto", "male"}

NextCatalog ==
    \/ DoNewVoiceCatalogAgent
    \/ \E file \in CatalogFiles : DoLoadCatalog(file)
    \/ \E language \in LanguageFlags, voiceID \in VoiceFlags, gender \in GenderFlags :
          DoSelectVoice(language, voiceID, gender)

SpecCatalog == Init /\ [][NextCatalog]_vars

\* a catalog entry that may be used commercially: the flag is set and the
\* license name is not a non-commercial one
Commercial(v) ==
    /\ v.CommercialUseAllowed
    /\ ~ContainsStr(ToLower(v.LicenseName), <<"n", "o", "n", "-", "c", "o", "m", "m", "e", "r", "c", "i", "a", "l">>)
    /\ ~ContainsStr(ToLower(v.LicenseName), <<"b", "y", "-", "n", "c">>)

====
